---------------------------- MODULE Spec2Model ----------------------------
(***************************************************************************)
(* Circuit Breach (Aegis OS): the simulation core of App.tsx, the entity   *)
(* classes of utils/gameClasses.ts and the advisory call of                *)
(* services/gemini.ts, as one state machine.                               *)
(*                                                                         *)
(* Conventions                                                             *)
(*  - One action per handler / callback.  React commits the state updates  *)
(*    of a handler together and runs the effects of the following render   *)
(*    before the next event, so the effects a handler triggers are part of *)
(*    its action.                                                          *)
(*  - Cards are immutable catalog templates: a card is its catalog id.     *)
(*  - JavaScript arrays are sequences; a JavaScript index i is i + 1 here, *)
(*    and a null index is 0.                                               *)
(*  - Numbers are fixed point: lengths in 1/50 px (every speed, range and  *)
(*    tile centre of the catalog is exact), health and damage in 1/100,    *)
(*    time in ms, the difficulty multiplier in 1/10, the slow factor in    *)
(*    1/100.                                                               *)
(*  - Objects that live on after leaving their array (a packet a           *)
(*    projectile still targets) stay in packetObj until nothing refers to  *)
(*    them.                                                                *)
(*  - One session is modelled: the stored history is empty, so the         *)
(*    redemption protocol of checkForRedemption stays idle, and the        *)
(*    reboot sequence is left out.  MAX_WAVES is imported by App.tsx but   *)
(*    not set by constants.ts, so the comparison in endWave is false and   *)
(*    the victory branch is never taken.  SecurityNode.upTime (a display   *)
(*    metric) is left out.                                                 *)
(***************************************************************************)
EXTENDS Integers, Sequences, FiniteSets, TLC

---------------------------------------------------------------------------
(* Program constants *)

GRID_SIZE == 10
TILE_SIZE == 60
MAX_ENERGY == 50
INITIAL_HP == 100
INITIAL_ENERGY == 20
HAND_SIZE == 5
CORE_DAMAGE == 12
KILL_REFUND == 2
PURGE_COST == 2
WAVE_BONUS == 15
BASE_HP == 40
BASE_SPEED == 2
SPAWN_INTERVAL == 800
WAVE_BASE == 6
WAVE_STEP == 3
REROUTE_DURATION == 300
BUFFER_SPEED == 8
DIFFICULTY_MIN == 8
DIFFICULTY_MAX == 15
DIFFICULTY_DEFAULT == 10

(* Bounds of the model *)

\* waves a session may start
MaxWaves == 2
\* reshuffles of at most this many cards take every order
MaxFullShuffle == 3
\* the hand slots 1..MaxSlot are selected, the slots 1..MaxPurgeSlot purged
MaxSlot == 2
MaxPurgeSlot == 1
\* packets on the last stretch of the route when the breach loop is checked
MaxPackets == 3

---------------------------------------------------------------------------
(* Fixed point *)

Px(n) == n * 50
Hp(n) == n * 100

Min(a, b) == IF a <= b THEN a ELSE b
Max(a, b) == IF a >= b THEN a ELSE b

\* division rounding toward zero, as the nearest fixed-point value of a/b
DivT(a, b) == IF a >= 0 THEN a \div b ELSE 0 - ((0 - a) \div b)

RECURSIVE SqrtSearch(_, _, _)
SqrtSearch(n, lo, hi) ==
  IF lo >= hi THEN lo
  ELSE CHOOSE r \in {IF mid * mid <= n THEN SqrtSearch(n, mid, hi)
                                        ELSE SqrtSearch(n, lo, mid - 1) :
                       mid \in {(lo + hi + 1) \div 2}} : TRUE

\* floor of Math.sqrt on fixed-point lengths (coordinates stay below 46340)
Sqrt(n) == SqrtSearch(n, 0, 46340)

Dist2(ax, ay, bx, by) == (ax - bx) * (ax - bx) + (ay - by) * (ay - by)

TileCenter(g) == Px(g * TILE_SIZE + TILE_SIZE \div 2)

---------------------------------------------------------------------------
(* The card catalog *)

NoCard == "none"

\* range in 1/10 tile, fireRate in 1/10 per second, slowPower in 1/100;
\* 0 stands for an absent stat
Stat(c, t, d, r, f, s, u) ==
  [cost |-> c, type |-> t, damage |-> d, range |-> r, fireRate |-> f,
   slowPower |-> s, fusionTargetId |-> u]

MASTER_CARD_POOL ==
  [basic_firewall |-> Stat(4, "SECURITY_NODE", 2, 12, 5, 0, "quantum_gate"),
   quantum_gate |-> Stat(8, "SECURITY_NODE", 15, 15, 12, 0, NoCard),
   scout_sensor |-> Stat(3, "SECURITY_NODE", 4, 40, 15, 0, "deep_packet_inspector"),
   deep_packet_inspector |-> Stat(7, "SECURITY_NODE", 8, 60, 20, 0, NoCard),
   static_burst |-> Stat(3, "SECURITY_NODE", 2, 25, 5, 0, "neural_tempest"),
   neural_tempest |-> Stat(7, "SECURITY_NODE", 12, 35, 10, 0, NoCard),
   corrosive_script |-> Stat(5, "SECURITY_NODE", 20, 30, 8, 0, NoCard),
   logic_bomb |-> Stat(6, "TACTICAL_PATCH", 60, 20, 0, 0, NoCard),
   vpn_tunnel |-> Stat(4, "SECURITY_NODE", 1, 30, 5, 40, NoCard),
   protocol_sentry |-> Stat(6, "SECURITY_NODE", 10, 40, 18, 0, NoCard),
   synapse_fryer |-> Stat(8, "SECURITY_NODE", 35, 50, 12, 0, NoCard),
   brain_jack |-> Stat(9, "SECURITY_NODE", 15, 40, 5, 0, NoCard),
   system_scan |-> Stat(2, "TACTICAL_PATCH", 0, 0, 0, 0, NoCard)]

CardIds == DOMAIN MASTER_CARD_POOL

INITIAL_DECK ==
  <<"basic_firewall", "basic_firewall", "scout_sensor", "scout_sensor",
    "static_burst", "system_scan", "protocol_sentry">>

Cost(card) == MASTER_CARD_POOL[card].cost

\* the fixed enemy route, in tiles
path ==
  << <<0, 5>>, <<2, 5>>, <<2, 2>>, <<5, 2>>, <<5, 7>>, <<8, 7>>, <<8, 5>>, <<9, 5>> >>

isTileOnPath(tx, ty) ==
  \E i \in 1..(Len(path) - 1) :
    LET p1 == path[i]
        p2 == path[i + 1]
    IN \/ /\ p1[1] = p2[1]
          /\ tx = p1[1]
          /\ ty >= Min(p1[2], p2[2])
          /\ ty <= Max(p1[2], p2[2])
       \/ /\ p1[2] = p2[2]
          /\ ty = p1[2]
          /\ tx >= Min(p1[1], p2[1])
          /\ tx <= Max(p1[1], p2[1])

---------------------------------------------------------------------------
(* Sequences *)

RemoveAt(s, i) == [j \in 1..(Len(s) - 1) |-> IF j < i THEN s[j] ELSE s[j + 1]]

RECURSIVE Reverse(_)
Reverse(s) == IF s = <<>> THEN <<>> ELSE Append(Reverse(Tail(s)), Head(s))

Rotate(s, k) == [j \in 1..Len(s) |-> s[((j + k - 1) % Len(s)) + 1]]

RECURSIVE Perms(_)
Perms(s) ==
  IF s = <<>> THEN {<<>>}
  ELSE UNION {{<<s[i]>> \o p : p \in Perms(RemoveAt(s, i))} : i \in 1..Len(s)}

---------------------------------------------------------------------------
(* State *)

VARIABLES
  \* gameState (React state)
  kernelHP, energyPoints, waveNumber, hand, deck, discard, isProcessing,
  isGameStarted, sessionActive, isWaveSummaryOpen, lastGeminiResponse,
  lastLog,
  \* other React state and refs of App
  activeWave, selectedIndices, selectedNodeIndex, reroutingNodeIndex,
  auditReport, prevHpRef,
  \* gameRef.current
  nodes, enemies, projectiles, defeatedCount, enemiesToSpawn, spawnTimer,
  difficultyMultiplier, currentHP, currentEnergy,
  \* the heap of MalwarePacket objects, by object id, and the next object id
  packetObj, nextId,
  \* the advisory call in flight, and the number of saveSession timers set
  aegisCall, savesScheduled,
  \* the outcomes of the invocations of fn that withRetry has made for the
  \* call in flight, when the call is followed attempt by attempt
  fnResults

cardVars == <<hand, deck, discard>>
flagVars == <<isProcessing, isGameStarted, sessionActive, isWaveSummaryOpen>>
selVars == <<selectedIndices, selectedNodeIndex, reroutingNodeIndex>>
energyVars == <<energyPoints, currentEnergy>>
hpVars == <<kernelHP, currentHP, prevHpRef, auditReport, savesScheduled>>
waveVars == <<activeWave, enemies, projectiles, defeatedCount, enemiesToSpawn,
              spawnTimer, packetObj, nextId>>
advisoryVars == <<waveNumber, lastGeminiResponse, difficultyMultiplier, aegisCall,
                  fnResults>>

vars == <<cardVars, flagVars, selVars, energyVars, hpVars, waveVars,
          advisoryVars, nodes, lastLog>>

Init ==
  /\ kernelHP = INITIAL_HP
  /\ energyPoints = INITIAL_ENERGY
  /\ waveNumber = 0
  /\ hand = <<>>
  /\ deck = INITIAL_DECK
  /\ discard = <<>>
  /\ isProcessing = FALSE
  /\ isGameStarted = FALSE
  /\ sessionActive = FALSE
  /\ isWaveSummaryOpen = FALSE
  /\ lastGeminiResponse = <<>>
  /\ lastLog = "[SYS] KERNEL BOOT"
  /\ activeWave = FALSE
  /\ selectedIndices = <<>>
  /\ selectedNodeIndex = 0
  /\ reroutingNodeIndex = 0
  /\ auditReport = FALSE
  /\ prevHpRef = INITIAL_HP
  /\ nodes = <<>>
  /\ enemies = <<>>
  /\ projectiles = <<>>
  /\ defeatedCount = 0
  /\ enemiesToSpawn = 0
  /\ spawnTimer = 0
  /\ difficultyMultiplier = DIFFICULTY_DEFAULT
  /\ currentHP = INITIAL_HP
  /\ currentEnergy = INITIAL_ENERGY
  /\ packetObj = <<>>
  /\ nextId = 1
  /\ aegisCall = "idle"
  /\ fnResults = <<>>
  /\ savesScheduled = 0

---------------------------------------------------------------------------
(* Drawing cards *)

\* the orders deck.sort(() => Math.random() - 0.5) is taken to produce:
\* every order of a short pile, the rotations and their mirrors of a long one
Shuffles(s) ==
  IF Len(s) <= MaxFullShuffle THEN Perms(s)
  ELSE {Rotate(s, k) : k \in 0..(Len(s) - 1)}
         \cup {Reverse(Rotate(s, k)) : k \in 0..(Len(s) - 1)}

\* drawHand that stops at an empty deck
RECURSIVE drawHandNoReshuffle(_, _, _)
drawHandNoReshuffle(h, d, c) ==
  IF Len(h) < HAND_SIZE /\ Len(d) > 0
  THEN drawHandNoReshuffle(Append(h, d[Len(d)]), SubSeq(d, 1, Len(d) - 1), c)
  ELSE {[hand |-> h, deck |-> d, discard |-> c]}

\* drawHand (App.tsx 278-294): the outcomes for hand, deck and discard
RECURSIVE drawHand(_, _, _)
drawHand(h, d, c) ==
  IF Len(h) < HAND_SIZE /\ (Len(d) > 0 \/ Len(c) > 0)
  THEN IF Len(d) = 0
       THEN UNION {drawHand(Append(h, s[Len(s)]), SubSeq(s, 1, Len(s) - 1), <<>>) :
                     s \in Shuffles(c)}
       ELSE drawHand(Append(h, d[Len(d)]), SubSeq(d, 1, Len(d) - 1), c)
  ELSE {[hand |-> h, deck |-> d, discard |-> c]}

\* the effect on kernelHP, sessionActive and auditReport (App.tsx 147-159):
\* the values of prevHpRef, sessionActive and auditReport it leaves
KernelHPEffect(hp, active, report, prev) ==
  IF hp < prev
  THEN [prevHpRef |-> prev, sessionActive |-> active, auditReport |-> report]
  ELSE IF hp <= 0 /\ active /\ ~report
       THEN [prevHpRef |-> hp, sessionActive |-> FALSE, auditReport |-> TRUE]
       ELSE [prevHpRef |-> hp, sessionActive |-> active, auditReport |-> report]

\* the hand effect (App.tsx 354-359), run when one of isGameStarted,
\* isProcessing, sessionActive changed: the outcomes for hand, deck, discard
HandEffect(started, processing, active, h, d, c) ==
  IF started /\ Len(h) = 0 /\ ~processing /\ active
  THEN drawHand(h, d, c)
  ELSE {[hand |-> h, deck |-> d, discard |-> c]}

startGame ==
  /\ ~isGameStarted
  /\ currentHP' = INITIAL_HP
  /\ currentEnergy' = INITIAL_ENERGY
  /\ isGameStarted' = TRUE
  /\ LET k == KernelHPEffect(kernelHP, TRUE, auditReport, prevHpRef)
     IN /\ sessionActive' = k.sessionActive
        /\ auditReport' = k.auditReport
        /\ prevHpRef' = k.prevHpRef
        /\ \E o \in HandEffect(TRUE, isProcessing, k.sessionActive, hand, deck, discard) :
             /\ hand' = o.hand
             /\ deck' = o.deck
             /\ discard' = o.discard
  /\ UNCHANGED <<kernelHP, energyPoints, savesScheduled, isProcessing,
                 isWaveSummaryOpen, selVars, waveVars, advisoryVars, nodes, lastLog>>

---------------------------------------------------------------------------
(* Selection and the breach button *)

Includes(s, v) == \E j \in 1..Len(s) : s[j] = v

\* toggleSelect that adds the slot to the selection
toggleSelectAdding(idx) ==
  /\ selectedNodeIndex' = 0
  /\ reroutingNodeIndex' = 0
  /\ selectedIndices' = IF Includes(selectedIndices, idx)
                        THEN SelectSeq(selectedIndices, LAMBDA v : v # idx)
                        ELSE Append(selectedIndices, idx)
  /\ UNCHANGED <<cardVars, flagVars, energyVars, hpVars, waveVars,
                 advisoryVars, nodes, lastLog>>

toggleSelect(idx) ==
  /\ selectedNodeIndex' = 0
  /\ reroutingNodeIndex' = 0
  /\ selectedIndices' = IF Includes(selectedIndices, idx)
                        THEN SelectSeq(selectedIndices, LAMBDA v : v # idx)
                        ELSE <<idx>>
  /\ UNCHANGED <<cardVars, flagVars, energyVars, hpVars, waveVars,
                 advisoryVars, nodes, lastLog>>

\* a click on card idx of the hand panel: the card takes pointer events
\* only when it is affordable and the session is active (App.tsx 1481-1482)
CardClick(idx) ==
  /\ idx \in 1..Len(hand)
  /\ energyPoints >= Cost(hand[idx])
  /\ sessionActive
  /\ toggleSelect(idx)

\* keys '1'..'5' (App.tsx 245-250)
KeyDigit(idx) ==
  /\ idx \in 1..HAND_SIZE
  /\ sessionActive
  /\ idx <= Len(hand)
  /\ ~isProcessing
  /\ ~activeWave
  /\ toggleSelect(idx)

\* key Escape (App.tsx 264-272)
KeyEscape ==
  /\ lastLog' = IF reroutingNodeIndex # 0 THEN "[SYS] REROUTE SEQUENCE ABORTED."
                ELSE lastLog
  /\ reroutingNodeIndex' = 0
  /\ selectedNodeIndex' = 0
  /\ selectedIndices' = <<>>
  /\ UNCHANGED <<cardVars, flagVars, energyVars, hpVars, waveVars,
                 advisoryVars, nodes>>

isBreachDisabled ==
  activeWave \/ isProcessing \/ ~isGameStarted \/ kernelHP <= 0
    \/ isWaveSummaryOpen \/ ~sessionActive

\* startWave behind a breach button that ignores the processing flag
startWaveUngated ==
  /\ ~(activeWave \/ ~isGameStarted \/ kernelHP <= 0 \/ ~sessionActive)
  /\ lastLog' = "[WAVE] COMMENCING SECURITY AUDIT..."
  /\ enemiesToSpawn' = WAVE_BASE + waveNumber * WAVE_STEP
  /\ spawnTimer' = 0
  /\ activeWave' = TRUE
  /\ UNCHANGED <<cardVars, flagVars, selVars, energyVars, hpVars, enemies,
                 projectiles, defeatedCount, packetObj, nextId, advisoryVars, nodes>>

\* the breach button and the space key
startWave ==
  /\ ~isBreachDisabled
  /\ IF activeWave
     THEN UNCHANGED <<lastLog, enemiesToSpawn, spawnTimer, activeWave>>
     ELSE /\ lastLog' = "[WAVE] COMMENCING SECURITY AUDIT..."
          /\ enemiesToSpawn' = WAVE_BASE + waveNumber * WAVE_STEP
          /\ spawnTimer' = 0
          /\ activeWave' = TRUE
  /\ UNCHANGED <<cardVars, flagVars, selVars, energyVars, hpVars, enemies,
                 projectiles, defeatedCount, packetObj, nextId, advisoryVars, nodes>>

---------------------------------------------------------------------------
(* Cards and nodes *)

\* purgeCard without the test of the energy pool
purgeCardOverdrawn(idx) ==
  /\ idx \in 1..Len(hand)
  /\ IF FALSE
     THEN /\ lastLog' = "[ERROR] INSUFFICIENT ENERGY FOR DATA PURGE."
          /\ UNCHANGED <<cardVars, energyVars, selectedIndices>>
     ELSE /\ currentEnergy' = currentEnergy - PURGE_COST
          /\ energyPoints' = energyPoints - PURGE_COST
          /\ hand' = RemoveAt(hand, idx)
          /\ discard' = Append(discard, hand[idx])
          /\ deck' = deck
          /\ selectedIndices' =
               LET kept == SelectSeq(selectedIndices, LAMBDA v : v # idx)
               IN [j \in 1..Len(kept) |-> IF kept[j] > idx THEN kept[j] - 1 ELSE kept[j]]
          /\ lastLog' = "[SYS] MANUAL DATA PURGE EXECUTED (-2 EP)"
  /\ UNCHANGED <<flagVars, selectedNodeIndex, reroutingNodeIndex, hpVars,
                 waveVars, advisoryVars, nodes>>

\* the purge button of a hand slot
purgeCard(idx) ==
  /\ idx \in 1..Len(hand)
  /\ IF energyPoints < PURGE_COST
     THEN /\ lastLog' = "[ERROR] INSUFFICIENT ENERGY FOR DATA PURGE."
          /\ UNCHANGED <<cardVars, energyVars, selectedIndices>>
     ELSE /\ currentEnergy' = currentEnergy - PURGE_COST
          /\ energyPoints' = energyPoints - PURGE_COST
          /\ hand' = RemoveAt(hand, idx)
          /\ discard' = Append(discard, hand[idx])
          /\ deck' = deck
          /\ selectedIndices' =
               LET kept == SelectSeq(selectedIndices, LAMBDA v : v # idx)
               IN [j \in 1..Len(kept) |-> IF kept[j] > idx THEN kept[j] - 1 ELSE kept[j]]
          /\ lastLog' = "[SYS] MANUAL DATA PURGE EXECUTED (-2 EP)"
  /\ UNCHANGED <<flagVars, selectedNodeIndex, reroutingNodeIndex, hpVars,
                 waveVars, advisoryVars, nodes>>

SecurityNode(id, gx, gy, card) ==
  [id |-> id, gridX |-> gx, gridY |-> gy, x |-> TileCenter(gx), y |-> TileCenter(gy),
   card |-> card, cooldown |-> 0, killCount |-> 0, isRerouting |-> FALSE,
   rerouteTimer |-> 0, startX |-> 0, startY |-> 0, targetX |-> 0, targetY |-> 0]

\* the stats the constructor of SecurityNode derives from the card
NodeRange(card) ==
  LET r == MASTER_CARD_POOL[card].range
  IN ((IF r = 0 THEN 20 ELSE r) * Px(TILE_SIZE)) \div 10

NodeDamage(card) == Hp(MASTER_CARD_POOL[card].damage)

NodeFireRate(card) ==
  LET f == MASTER_CARD_POOL[card].fireRate
  IN IF f = 0 THEN 10 ELSE f

NodeSlowPower(card) == MASTER_CARD_POOL[card].slowPower

\* startReroute that leaves the grid coordinates to the end of the animation
startRerouteDeferred(n, gx, gy) ==
  [n EXCEPT !.startX = n.x, !.startY = n.y,
            !.targetX = TileCenter(gx), !.targetY = TileCenter(gy),
            !.rerouteTimer = 0, !.isRerouting = TRUE]

\* SecurityNode.setPosition
setPosition(n, gx, gy) ==
  [n EXCEPT !.gridX = gx, !.gridY = gy, !.x = TileCenter(gx), !.y = TileCenter(gy),
            !.isRerouting = FALSE]

\* SecurityNode.startReroute
startReroute(n, gx, gy) ==
  [n EXCEPT !.gridX = gx, !.gridY = gy, !.startX = n.x, !.startY = n.y,
            !.targetX = TileCenter(gx), !.targetY = TileCenter(gy),
            !.rerouteTimer = 0, !.isRerouting = TRUE]

\* decompileNode with a refund that is not capped
decompileNodeUncapped ==
  /\ selectedNodeIndex \in 1..Len(nodes)
  /\ sessionActive
  /\ LET card == nodes[selectedNodeIndex].card
         isBufferFull == Len(hand) >= HAND_SIZE
         ramRefund == IF isBufferFull THEN (Cost(card) * 8) \div 10
                                      ELSE (Cost(card) * 5) \div 10
     IN /\ hand' = IF isBufferFull THEN hand ELSE Append(hand, card)
        /\ currentEnergy' = currentEnergy + ramRefund
        /\ energyPoints' = energyPoints + ramRefund
        /\ lastLog' = IF isBufferFull THEN "[SYS] BUFFER OVERFLOW" ELSE "[SYS] RECALLED"
  /\ nodes' = RemoveAt(nodes, selectedNodeIndex)
  /\ selectedNodeIndex' = 0
  /\ reroutingNodeIndex' = 0
  /\ UNCHANGED <<deck, discard, flagVars, selectedIndices, hpVars, waveVars,
                 advisoryVars>>

\* the DECOMPILE button of the node panel, shown for the selected node
\* while the session is active (App.tsx 1120, 1138)
decompileNode ==
  /\ selectedNodeIndex \in 1..Len(nodes)
  /\ sessionActive
  /\ LET card == nodes[selectedNodeIndex].card
         isBufferFull == Len(hand) >= HAND_SIZE
         ramRefund == IF isBufferFull THEN (Cost(card) * 8) \div 10
                                      ELSE (Cost(card) * 5) \div 10
     IN /\ hand' = IF isBufferFull THEN hand ELSE Append(hand, card)
        /\ currentEnergy' = Min(MAX_ENERGY, currentEnergy + ramRefund)
        /\ energyPoints' = Min(MAX_ENERGY, energyPoints + ramRefund)
        /\ lastLog' = IF isBufferFull THEN "[SYS] BUFFER OVERFLOW" ELSE "[SYS] RECALLED"
  /\ nodes' = RemoveAt(nodes, selectedNodeIndex)
  /\ selectedNodeIndex' = 0
  /\ reroutingNodeIndex' = 0
  /\ UNCHANGED <<deck, discard, flagVars, selectedIndices, hpVars, waveVars,
                 advisoryVars>>

\* the REROUTE button of the node panel
initReroute ==
  /\ selectedNodeIndex \in 1..Len(nodes)
  /\ sessionActive
  /\ reroutingNodeIndex' = selectedNodeIndex
  /\ selectedNodeIndex' = 0
  /\ lastLog' = "[SYS] INITIATING DATA REROUTE... SELECT DESTINATION PORT."
  /\ UNCHANGED <<cardVars, flagVars, selectedIndices, energyVars, hpVars,
                 waveVars, advisoryVars, nodes>>

---------------------------------------------------------------------------
(* The canvas *)

\* 1-based index of the node on tile (x, y), 0 when the tile is free
NodeAt(x, y) ==
  LET hits == {i \in 1..Len(nodes) : nodes[i].gridX = x /\ nodes[i].gridY = y}
  IN IF hits = {} THEN 0 ELSE CHOOSE i \in hits : \A j \in hits : i <= j

\* the canvas takes the click unless an overlay of <main> covers it
\* (App.tsx 1188, 1204, 1299, 1402)
CanvasUncovered ==
  isGameStarted /\ ~isProcessing /\ ~isWaveSummaryOpen /\ ~auditReport

rerouteCost(card) == Max(1, Cost(card) \div 10)

\* RerouteClick without the test of the destination port
RerouteClickAnywhere(x, y) ==
  LET node == nodes[reroutingNodeIndex]
      cost == rerouteCost(node.card)
  IN /\ reroutingNodeIndex' = 0
     /\ IF energyPoints < cost
        THEN /\ lastLog' = "[ERROR] INSUFFICIENT RAM FOR REROUTE."
             /\ UNCHANGED <<nodes, energyVars>>
        ELSE /\ nodes' = [nodes EXCEPT ![reroutingNodeIndex] = startReroute(node, x, y)]
             /\ currentEnergy' = currentEnergy - cost
             /\ energyPoints' = energyPoints - cost
             /\ lastLog' = "[SYS] REROUTE COMPLETE"
     /\ UNCHANGED <<cardVars, selectedIndices, selectedNodeIndex, nextId>>

\* RerouteClick with a reroute that is not charged
RerouteClickFree(x, y) ==
  LET node == nodes[reroutingNodeIndex]
      cost == rerouteCost(node.card)
  IN /\ reroutingNodeIndex' = 0
     /\ IF NodeAt(x, y) # 0 \/ isTileOnPath(x, y)
        THEN /\ lastLog' = "[ERROR] PORT UNAVAILABLE. REROUTE CANCELLED."
             /\ UNCHANGED <<nodes, energyVars>>
        ELSE IF energyPoints < cost
        THEN /\ lastLog' = "[ERROR] INSUFFICIENT RAM FOR REROUTE."
             /\ UNCHANGED <<nodes, energyVars>>
        ELSE /\ nodes' = [nodes EXCEPT ![reroutingNodeIndex] = startReroute(node, x, y)]
             /\ lastLog' = "[SYS] REROUTE COMPLETE"
             /\ UNCHANGED energyVars
     /\ UNCHANGED <<cardVars, selectedIndices, selectedNodeIndex, nextId>>

\* RerouteClick with a rejection that is charged
RerouteClickPenalised(x, y) ==
  LET node == nodes[reroutingNodeIndex]
      cost == rerouteCost(node.card)
  IN /\ reroutingNodeIndex' = 0
     /\ IF NodeAt(x, y) # 0 \/ isTileOnPath(x, y)
        THEN /\ lastLog' = "[ERROR] PORT UNAVAILABLE. REROUTE CANCELLED."
             /\ currentEnergy' = Max(0, currentEnergy - cost)
             /\ energyPoints' = Max(0, energyPoints - cost)
             /\ UNCHANGED nodes
        ELSE IF energyPoints < cost
        THEN /\ lastLog' = "[ERROR] INSUFFICIENT RAM FOR REROUTE."
             /\ UNCHANGED <<nodes, energyVars>>
        ELSE /\ nodes' = [nodes EXCEPT ![reroutingNodeIndex] = startReroute(node, x, y)]
             /\ currentEnergy' = currentEnergy - cost
             /\ energyPoints' = energyPoints - cost
             /\ lastLog' = "[SYS] REROUTE COMPLETE"
     /\ UNCHANGED <<cardVars, selectedIndices, selectedNodeIndex, nextId>>

\* App.tsx 612-647
RerouteClick(x, y) ==
  LET node == nodes[reroutingNodeIndex]
      cost == rerouteCost(node.card)
  IN /\ reroutingNodeIndex' = 0
     /\ IF NodeAt(x, y) # 0 \/ isTileOnPath(x, y)
        THEN /\ lastLog' = "[ERROR] PORT UNAVAILABLE. REROUTE CANCELLED."
             /\ UNCHANGED <<nodes, energyVars>>
        ELSE IF energyPoints < cost
        THEN /\ lastLog' = "[ERROR] INSUFFICIENT RAM FOR REROUTE."
             /\ UNCHANGED <<nodes, energyVars>>
        ELSE /\ nodes' = [nodes EXCEPT ![reroutingNodeIndex] = startReroute(node, x, y)]
             /\ currentEnergy' = currentEnergy - cost
             /\ energyPoints' = energyPoints - cost
             /\ lastLog' = "[SYS] REROUTE COMPLETE"
     /\ UNCHANGED <<cardVars, selectedIndices, selectedNodeIndex, nextId>>

\* App.tsx 649-655
SelectNodeClick(x, y) ==
  /\ selectedNodeIndex' = NodeAt(x, y)
  /\ selectedIndices' = <<>>
  /\ lastLog' = "[SYS] ACCESSING SECTOR NODE"
  /\ UNCHANGED <<cardVars, energyVars, nodes, reroutingNodeIndex, nextId>>

\* PlacementClick with a deployment that is not paid for
PlacementClickUnpaid(x, y) ==
  LET idx == selectedIndices[1]
      card == hand[idx]
  IN IF idx > Len(hand)
     THEN UNCHANGED <<cardVars, energyVars, nodes, selVars, nextId, lastLog>>
     ELSE IF MASTER_CARD_POOL[card].type = "SECURITY_NODE" /\ energyPoints >= Cost(card)
     THEN IF NodeAt(x, y) # 0 \/ isTileOnPath(x, y)
          THEN /\ lastLog' = "[ERROR] SECTOR PORT UNAVAILABLE."
               /\ UNCHANGED <<cardVars, energyVars, nodes, selVars, nextId>>
          ELSE /\ nodes' = Append(nodes, SecurityNode(nextId, x, y, card))
               /\ nextId' = nextId + 1
               /\ hand' = RemoveAt(hand, idx)
               /\ discard' = Append(discard, card)
               /\ deck' = deck
               /\ selectedIndices' = <<>>
               /\ lastLog' = "[SYS] NODE DEPLOYED"
               /\ UNCHANGED <<energyVars, selectedNodeIndex, reroutingNodeIndex>>
     ELSE /\ lastLog' = IF energyPoints < Cost(card)
                        THEN "[ERROR] INSUFFICIENT ENERGY FOR DEPLOYMENT."
                        ELSE lastLog
          /\ UNCHANGED <<cardVars, energyVars, nodes, selVars, nextId>>

\* PlacementClick with a deployment that drops the played card
PlacementClickDropped(x, y) ==
  LET idx == selectedIndices[1]
      card == hand[idx]
  IN IF idx > Len(hand)
     THEN UNCHANGED <<cardVars, energyVars, nodes, selVars, nextId, lastLog>>
     ELSE IF MASTER_CARD_POOL[card].type = "SECURITY_NODE" /\ energyPoints >= Cost(card)
     THEN IF NodeAt(x, y) # 0 \/ isTileOnPath(x, y)
          THEN /\ lastLog' = "[ERROR] SECTOR PORT UNAVAILABLE."
               /\ UNCHANGED <<cardVars, energyVars, nodes, selVars, nextId>>
          ELSE /\ nodes' = Append(nodes, SecurityNode(nextId, x, y, card))
               /\ nextId' = nextId + 1
               /\ currentEnergy' = currentEnergy - Cost(card)
               /\ energyPoints' = energyPoints - Cost(card)
               /\ hand' = RemoveAt(hand, idx)
               /\ selectedIndices' = <<>>
               /\ lastLog' = "[SYS] NODE DEPLOYED"
               /\ UNCHANGED <<deck, discard, selectedNodeIndex, reroutingNodeIndex>>
     ELSE /\ lastLog' = IF energyPoints < Cost(card)
                        THEN "[ERROR] INSUFFICIENT ENERGY FOR DEPLOYMENT."
                        ELSE lastLog
          /\ UNCHANGED <<cardVars, energyVars, nodes, selVars, nextId>>

\* App.tsx 657-685; reading .type of a missing card throws before any update
PlacementClick(x, y) ==
  LET idx == selectedIndices[1]
      card == hand[idx]
  IN IF idx > Len(hand)
     THEN UNCHANGED <<cardVars, energyVars, nodes, selVars, nextId, lastLog>>
     ELSE IF MASTER_CARD_POOL[card].type = "SECURITY_NODE" /\ energyPoints >= Cost(card)
     THEN IF NodeAt(x, y) # 0 \/ isTileOnPath(x, y)
          THEN /\ lastLog' = "[ERROR] SECTOR PORT UNAVAILABLE."
               /\ UNCHANGED <<cardVars, energyVars, nodes, selVars, nextId>>
          ELSE /\ nodes' = Append(nodes, SecurityNode(nextId, x, y, card))
               /\ nextId' = nextId + 1
               /\ currentEnergy' = currentEnergy - Cost(card)
               /\ energyPoints' = energyPoints - Cost(card)
               /\ hand' = RemoveAt(hand, idx)
               /\ discard' = Append(discard, card)
               /\ deck' = deck
               /\ selectedIndices' = <<>>
               /\ lastLog' = "[SYS] NODE DEPLOYED"
               /\ UNCHANGED <<selectedNodeIndex, reroutingNodeIndex>>
     ELSE /\ lastLog' = IF energyPoints < Cost(card)
                        THEN "[ERROR] INSUFFICIENT ENERGY FOR DEPLOYMENT."
                        ELSE lastLog
          /\ UNCHANGED <<cardVars, energyVars, nodes, selVars, nextId>>

handleCanvasClick(x, y) ==
  /\ CanvasUncovered
  /\ IF x < 0 \/ x >= GRID_SIZE \/ y < 0 \/ y >= GRID_SIZE
     THEN UNCHANGED <<cardVars, energyVars, nodes, selVars, nextId, lastLog>>
     ELSE IF reroutingNodeIndex # 0 THEN RerouteClick(x, y)
     ELSE IF NodeAt(x, y) # 0 THEN SelectNodeClick(x, y)
     ELSE IF Len(selectedIndices) = 1 THEN PlacementClick(x, y)
     ELSE /\ selectedNodeIndex' = 0
          /\ UNCHANGED <<cardVars, energyVars, nodes, selectedIndices,
                         reroutingNodeIndex, nextId, lastLog>>
  /\ UNCHANGED <<flagVars, hpVars, activeWave, enemies, projectiles,
                 defeatedCount, enemiesToSpawn, spawnTimer, packetObj, advisoryVars>>

---------------------------------------------------------------------------
(* Fusion *)

\* toggleSelect leaves at most one selected index, so no handler produces the
\* two selected cards canFuse asks for; fuseCards is in no next-state relation
canFuse ==
  /\ Len(selectedIndices) = 2
  /\ selectedIndices[1] <= Len(hand)
  /\ selectedIndices[2] <= Len(hand)
  /\ hand[selectedIndices[1]] = hand[selectedIndices[2]]
  /\ MASTER_CARD_POOL[hand[selectedIndices[1]]].fusionTargetId # NoCard

fuseCards ==
  /\ canFuse
  /\ sessionActive
  /\ LET i1 == selectedIndices[1]
         i2 == selectedIndices[2]
         fusedCard == MASTER_CARD_POOL[hand[i1]].fusionTargetId
     IN IF fusedCard \in CardIds
        THEN /\ hand' = Append(RemoveAt(RemoveAt(hand, Max(i1, i2)), Min(i1, i2)), fusedCard)
             /\ selectedIndices' = <<>>
             /\ lastLog' = "[SYS] FUSING DATA SIGNATURES"
        ELSE UNCHANGED <<hand, selectedIndices, lastLog>>
  /\ UNCHANGED <<deck, discard, flagVars, selectedNodeIndex, reroutingNodeIndex,
                 energyVars, hpVars, waveVars, advisoryVars, nodes>>

---------------------------------------------------------------------------
(* The wave boundary and the advisory call *)

MAX_RETRIES == 3

\* withRetry over the outcomes of the successive attempts: "ok" when an
\* attempt returns, "throw" when an error is passed on
RECURSIVE withRetry(_, _)
withRetry(attempts, i) ==
  IF i > MAX_RETRIES THEN "throw"
  ELSE IF attempts[i] = "ok" THEN "ok"
  ELSE IF attempts[i] = "not_found" THEN "throw"
  ELSE IF attempts[i] = "rate_limit" /\ i < MAX_RETRIES THEN withRetry(attempts, i + 1)
  ELSE "throw"

Response(d, t, ids) ==
  [wave_difficulty |-> d, malware_type |-> t, suggested_cards_ids |-> ids]

fallback == Response(DIFFICULTY_DEFAULT, "STANDARD", <<"basic_firewall", "protocol_sentry">>)

\* Sanitize without the clamp of the difficulty
SanitizeUnclamped(rawJson) ==
  Response(
    IF rawJson.wave_difficulty = <<>> THEN DIFFICULTY_DEFAULT
    ELSE rawJson.wave_difficulty[1],
    IF rawJson.malware_type = <<>> THEN "STANDARD" ELSE rawJson.malware_type[1],
    IF Len(rawJson.suggested_cards_ids) > 0 THEN rawJson.suggested_cards_ids
    ELSE <<"basic_firewall", "protocol_sentry", "scout_sensor">>)

\* a raw reply carries its fields as sequences of length at most one:
\* << >> is a field the reply leaves out
Sanitize(rawJson) ==
  Response(
    Max(DIFFICULTY_MIN,
        Min(DIFFICULTY_MAX,
            IF rawJson.wave_difficulty = <<>> THEN DIFFICULTY_DEFAULT
            ELSE rawJson.wave_difficulty[1])),
    IF rawJson.malware_type = <<>> THEN "STANDARD" ELSE rawJson.malware_type[1],
    IF Len(rawJson.suggested_cards_ids) > 0 THEN rawJson.suggested_cards_ids
    ELSE <<"basic_firewall", "protocol_sentry", "scout_sensor">>)

getAegisReasoning(attempts, rawJson) ==
  IF withRetry(attempts, 1) = "ok" THEN Sanitize(rawJson) ELSE fallback

\* CatalogCard without the default card
CatalogCardAsGiven(id) == id

CatalogCard(id) == IF id \in CardIds THEN id ELSE "protocol_sentry"

\* the PROCEED button of the wave summary, up to the await
proceedToNextCycle ==
  /\ isWaveSummaryOpen
  /\ kernelHP > 0
  /\ sessionActive
  /\ isWaveSummaryOpen' = FALSE
  /\ isProcessing' = TRUE
  /\ lastLog' = "[SYS] BREACH EVENT CONCLUDED. ANALYZING DATA..."
  /\ discard' = discard \o hand
  /\ hand' = <<>>
  /\ aegisCall' = "pending"
  /\ UNCHANGED <<deck, isGameStarted, sessionActive, selVars, energyVars, hpVars,
                 waveVars, waveNumber, lastGeminiResponse, difficultyMultiplier,
                 fnResults, nodes>>

\* the advisory call settles and proceedToNextCycle runs on (App.tsx 461-480)
AegisReturn(attempts, rawJson) ==
  /\ aegisCall = "pending"
  /\ aegisCall' = "idle"
  /\ fnResults' = <<>>
  /\ LET aegis == getAegisReasoning(attempts, rawJson)
         newHand == [j \in 1..Len(aegis.suggested_cards_ids) |->
                       CatalogCard(aegis.suggested_cards_ids[j])]
     IN /\ lastLog' = "[AEGIS] KERNEL LOG"
        /\ waveNumber' = waveNumber + 1
        /\ energyPoints' = Min(MAX_ENERGY, energyPoints + WAVE_BONUS)
        /\ isProcessing' = FALSE
        /\ lastGeminiResponse' = <<aegis>>
        /\ currentEnergy' = Min(MAX_ENERGY, currentEnergy + WAVE_BONUS)
        /\ difficultyMultiplier' = aegis.wave_difficulty
        /\ \E o \in drawHand(newHand, deck, discard) :
             /\ hand' = o.hand
             /\ deck' = o.deck
             /\ discard' = o.discard
  /\ UNCHANGED <<isGameStarted, sessionActive, isWaveSummaryOpen, selVars, hpVars,
                 waveVars, nodes>>

\* the tests of the catch block on the message of the error thrown by fn
isRateLimit(r) == r \in {"rate_limit", "rate_limit_not_found"}

isNotFound(r) == r \in {"not_found", "rate_limit_not_found"}

\* Retrying that goes round again after any error
RetryingOnAnyError(results) ==
  /\ Len(results) < MAX_RETRIES
  /\ IF results = <<>> THEN TRUE ELSE results[Len(results)] # "ok"

\* the loop of withRetry runs another iteration: it has not run yet, or the
\* last iteration caught a rate-limit error that is not a not-found error
\* with i < maxRetries - 1 (i is the index of that iteration)
Retrying(results) ==
  /\ Len(results) < MAX_RETRIES
  /\ IF results = <<>> THEN TRUE
     ELSE LET r == results[Len(results)]
              i == Len(results) - 1
          IN /\ r # "ok"
             /\ ~isNotFound(r)
             /\ isRateLimit(r) /\ i < MAX_RETRIES - 1

\* one iteration of the loop of withRetry, up to the return, the throw or
\* the await of the backoff delay: fn is invoked and returns or throws
withRetryAttempt(outcome) ==
  /\ aegisCall = "pending"
  /\ Retrying(fnResults)
  /\ fnResults' = Append(fnResults, outcome)
  /\ UNCHANGED <<cardVars, flagVars, selVars, energyVars, hpVars, waveVars,
                 waveNumber, lastGeminiResponse, difficultyMultiplier, aegisCall,
                 nodes, lastLog>>

\* withRetry has returned or thrown, and the advisory call settles
withRetrySettles(rawJson) ==
  /\ ~Retrying(fnResults)
  /\ AegisReturn(fnResults, rawJson)

\* the ABORT button of the wave summary
abortAuditAndTerminate ==
  /\ isWaveSummaryOpen
  /\ kernelHP > 0
  /\ sessionActive
  /\ currentHP' = 0
  /\ kernelHP' = 0
  /\ lastLog' = "[CRITICAL] USER TERMINATION PROTOCOL ENGAGED."
  /\ LET k == KernelHPEffect(0, FALSE, auditReport, prevHpRef)
     IN /\ sessionActive' = k.sessionActive
        /\ auditReport' = k.auditReport
        /\ prevHpRef' = k.prevHpRef
  /\ UNCHANGED <<cardVars, isProcessing, isGameStarted, isWaveSummaryOpen, selVars,
                 energyVars, savesScheduled, waveVars, advisoryVars, nodes>>

\* the CLOSE button of the wave summary, shown once kernelHP is 0
closeSummaryAndShowAudit ==
  /\ isWaveSummaryOpen
  /\ kernelHP <= 0
  /\ isWaveSummaryOpen' = FALSE
  /\ LET k == KernelHPEffect(kernelHP, sessionActive, TRUE, prevHpRef)
     IN /\ sessionActive' = k.sessionActive
        /\ auditReport' = k.auditReport
        /\ prevHpRef' = k.prevHpRef
  /\ UNCHANGED <<cardVars, isProcessing, isGameStarted, selVars, energyVars,
                 kernelHP, currentHP, savesScheduled, waveVars, advisoryVars,
                 nodes, lastLog>>

---------------------------------------------------------------------------
(* Entities *)

\* new MalwarePacket(path, {hp, speed}, type)
MalwarePacket(hp, speed, type) ==
  LET f == CASE type = "SWARM_PACKET" -> [hp |-> 6, speed |-> 14]
             [] type = "ARMORED_ELITE" -> [hp |-> 25, speed |-> 7]
             [] type = "STEALTH_WORM" -> [hp |-> 12, speed |-> 11]
             [] OTHER -> [hp |-> 10, speed |-> 10]
  IN [x |-> TileCenter(path[1][1]), y |-> TileCenter(path[1][2]),
      hp |-> (hp * f.hp) \div 10, baseSpeed |-> (speed * f.speed) \div 10,
      pathIndex |-> 1, slowFactor |-> 100]

\* MalwarePacket.update reports the end of the route ...
PacketAtEnd(e) == e.pathIndex >= Len(path)

\* PacketUpdate with a cursor that skips a waypoint
PacketUpdateSkipping(e) ==
  LET currentSpeed == (e.baseSpeed * e.slowFactor) \div 100
      tx == TileCenter(path[e.pathIndex + 1][1])
      ty == TileCenter(path[e.pathIndex + 1][2])
      dx == tx - e.x
      dy == ty - e.y
      d2 == dx * dx + dy * dy
      dist == Sqrt(d2)
  IN IF d2 < currentSpeed * currentSpeed
     THEN [e EXCEPT !.x = tx, !.y = ty, !.pathIndex = e.pathIndex + 2,
                    !.slowFactor = 100]
     ELSE IF dist = 0 THEN [e EXCEPT !.slowFactor = 100]
     ELSE [e EXCEPT !.x = e.x + DivT(dx * currentSpeed, dist),
                    !.y = e.y + DivT(dy * currentSpeed, dist),
                    !.slowFactor = 100]

\* PacketUpdate without the reset of the slow factor
PacketUpdateSticky(e) ==
  LET currentSpeed == (e.baseSpeed * e.slowFactor) \div 100
      tx == TileCenter(path[e.pathIndex + 1][1])
      ty == TileCenter(path[e.pathIndex + 1][2])
      dx == tx - e.x
      dy == ty - e.y
      d2 == dx * dx + dy * dy
      dist == Sqrt(d2)
  IN IF d2 < currentSpeed * currentSpeed
     THEN [e EXCEPT !.x = tx, !.y = ty, !.pathIndex = e.pathIndex + 1]
     ELSE IF dist = 0 THEN e
     ELSE [e EXCEPT !.x = e.x + DivT(dx * currentSpeed, dist),
                    !.y = e.y + DivT(dy * currentSpeed, dist)]

\* ... and otherwise moves the packet one frame
PacketUpdate(e) ==
  LET currentSpeed == (e.baseSpeed * e.slowFactor) \div 100
      tx == TileCenter(path[e.pathIndex + 1][1])
      ty == TileCenter(path[e.pathIndex + 1][2])
      dx == tx - e.x
      dy == ty - e.y
      d2 == dx * dx + dy * dy
      dist == Sqrt(d2)
  IN IF d2 < currentSpeed * currentSpeed
     THEN [e EXCEPT !.x = tx, !.y = ty, !.pathIndex = e.pathIndex + 1, !.slowFactor = 100]
     ELSE IF dist = 0 THEN [e EXCEPT !.slowFactor = 100]
     ELSE [e EXCEPT !.x = e.x + DivT(dx * currentSpeed, dist),
                    !.y = e.y + DivT(dy * currentSpeed, dist),
                    !.slowFactor = 100]

\* new FirewallBuffer(node.x, node.y, target, node.damage, node)
FirewallBuffer(x, y, target, damage, sourceNode) ==
  [x |-> x, y |-> y, target |-> target, damage |-> damage, sourceNode |-> sourceNode]

\* 1000 * 2^(-j/10), j = 0..10
Pow2Tenths == <<1000, 933, 871, 812, 758, 707, 660, 616, 574, 536, 500>>

RECURSIVE Halve(_, _)
Halve(v, k) == IF k = 0 THEN v ELSE Halve(v \div 2, k - 1)

\* the ease of SecurityNode.update, x === 1 ? 1 : 1 - 2^(-10x), on permille
ease(t) ==
  IF t = 1000 THEN 1000
  ELSE LET j == (t % 100) \div 10
           lo == Pow2Tenths[j + 1]
           hi == Pow2Tenths[j + 2]
           frac == lo + ((hi - lo) * (t % 10)) \div 10
       IN 1000 - Halve(frac, t \div 100)

\* the interpolation part of SecurityNode.update
NodeReroute(n, dt) ==
  IF ~n.isRerouting THEN n
  ELSE LET timer == n.rerouteTimer + dt
           t == Min(1000, (timer * 1000) \div REROUTE_DURATION)
           factor == ease(t)
       IN IF t >= 1000
          THEN [n EXCEPT !.rerouteTimer = timer, !.isRerouting = FALSE,
                         !.x = n.targetX, !.y = n.targetY]
          ELSE [n EXCEPT !.rerouteTimer = timer,
                         !.x = n.startX + DivT((n.targetX - n.startX) * factor, 1000),
                         !.y = n.startY + DivT((n.targetY - n.startY) * factor, 1000)]

InRange(n, e) ==
  Dist2(e.x, e.y, n.x, n.y) < NodeRange(n.card) * NodeRange(n.card)

\* findTarget with ties that go to the last packet of the collection
findTargetLast(n, ids, obj) ==
  LET near == {i \in 1..Len(ids) : InRange(n, obj[ids[i]])}
      d(i) == Dist2(obj[ids[i]].x, obj[ids[i]].y, n.x, n.y)
  IN IF near = {} THEN 0
     ELSE CHOOSE i \in near : \A j \in near : d(i) < d(j) \/ (d(i) = d(j) /\ i >= j)

\* the loop of findTarget from position i on, with the position of the
\* closest packet so far (0 for null); minDist is the distance of closest
RECURSIVE FindClosest(_, _, _, _, _)
FindClosest(n, ids, obj, i, closest) ==
  IF i > Len(ids) THEN closest
  ELSE LET e == obj[ids[i]]
           closer == \/ closest = 0
                     \/ Dist2(e.x, e.y, n.x, n.y)
                          < Dist2(obj[ids[closest]].x, obj[ids[closest]].y, n.x, n.y)
       IN CHOOSE r \in {FindClosest(n, ids, obj, i + 1, c) :
                          c \in {IF InRange(n, e) /\ closer THEN i ELSE closest}} : TRUE

\* the position in ids of the packet findTarget returns, 0 for null
findTarget(n, ids, obj) == FindClosest(n, ids, obj, 1, 0)

---------------------------------------------------------------------------
(* One animation frame *)

\* the part of gameRef.current a frame works on
World ==
  [enemies |-> enemies, obj |-> packetObj, projectiles |-> projectiles,
   nodes |-> nodes, currentHP |-> currentHP, currentEnergy |-> currentEnergy,
   defeatedCount |-> defeatedCount, enemiesToSpawn |-> enemiesToSpawn,
   spawnTimer |-> spawnTimer, nextId |-> nextId, saves |-> savesScheduled]

malwareType ==
  IF lastGeminiResponse = <<>> THEN "STANDARD" ELSE lastGeminiResponse[1].malware_type

\* Spawn without the spawn timer
SpawnEager(w, dt) ==
  IF w.enemiesToSpawn <= 0 THEN w
  ELSE LET enemy == MalwarePacket((Hp(BASE_HP) * difficultyMultiplier) \div 10,
                                  Px(BASE_SPEED), malwareType)
       IN [w EXCEPT !.enemies = Append(w.enemies, w.nextId),
                    !.obj = (w.nextId :> enemy) @@ w.obj,
                    !.nextId = w.nextId + 1,
                    !.enemiesToSpawn = w.enemiesToSpawn - 1,
                    !.spawnTimer = 0]

\* App.tsx 802-815
Spawn(w, dt) ==
  IF w.enemiesToSpawn <= 0 THEN w
  ELSE IF w.spawnTimer + dt < SPAWN_INTERVAL
  THEN [w EXCEPT !.spawnTimer = w.spawnTimer + dt]
  ELSE LET enemy == MalwarePacket((Hp(BASE_HP) * difficultyMultiplier) \div 10,
                                  Px(BASE_SPEED), malwareType)
       IN [w EXCEPT !.enemies = Append(w.enemies, w.nextId),
                    !.obj = (w.nextId :> enemy) @@ w.obj,
                    !.nextId = w.nextId + 1,
                    !.enemiesToSpawn = w.enemiesToSpawn - 1,
                    !.spawnTimer = 0]

\* EnemyStep with a session save at every breach that finds the core at 0
EnemyStepResave(w, i) ==
  LET id == w.enemies[i]
      e == w.obj[id]
      moved == PacketUpdate(e)
      newHP == Max(0, w.currentHP - CORE_DAMAGE)
  IN IF PacketAtEnd(e)
     THEN [w EXCEPT !.currentHP = newHP,
                    !.saves = IF newHP <= 0 THEN w.saves + 1 ELSE w.saves,
                    !.enemies = RemoveAt(w.enemies, i)]
     ELSE IF moved.hp <= 0
     THEN [w EXCEPT !.obj = [w.obj EXCEPT ![id] = moved],
                    !.enemies = RemoveAt(w.enemies, i),
                    !.defeatedCount = w.defeatedCount + 1,
                    !.currentEnergy = Min(MAX_ENERGY, w.currentEnergy + KILL_REFUND)]
     ELSE [w EXCEPT !.obj = [w.obj EXCEPT ![id] = moved]]

\* EnemyStep with a kill refund that is not clamped
EnemyStepUnclamped(w, i) ==
  LET id == w.enemies[i]
      e == w.obj[id]
      moved == PacketUpdate(e)
      newHP == Max(0, w.currentHP - CORE_DAMAGE)
  IN IF PacketAtEnd(e)
     THEN [w EXCEPT !.currentHP = newHP,
                    !.saves = IF newHP <= 0 /\ w.currentHP > 0 THEN w.saves + 1 ELSE w.saves,
                    !.enemies = RemoveAt(w.enemies, i)]
     ELSE IF moved.hp <= 0
     THEN [w EXCEPT !.obj = [w.obj EXCEPT ![id] = moved],
                    !.enemies = RemoveAt(w.enemies, i),
                    !.defeatedCount = w.defeatedCount + 1,
                    !.currentEnergy = w.currentEnergy + KILL_REFUND]
     ELSE [w EXCEPT !.obj = [w.obj EXCEPT ![id] = moved]]

\* the body of the loop over enemies (App.tsx 818-831), for position i
EnemyStep(w, i) ==
  LET id == w.enemies[i]
      e == w.obj[id]
      moved == PacketUpdate(e)
      newHP == Max(0, w.currentHP - CORE_DAMAGE)
  IN IF PacketAtEnd(e)
     THEN [w EXCEPT !.currentHP = newHP,
                    !.saves = IF newHP <= 0 /\ w.currentHP > 0 THEN w.saves + 1 ELSE w.saves,
                    !.enemies = RemoveAt(w.enemies, i)]
     ELSE IF moved.hp <= 0
     THEN [w EXCEPT !.obj = [w.obj EXCEPT ![id] = moved],
                    !.enemies = RemoveAt(w.enemies, i),
                    !.defeatedCount = w.defeatedCount + 1,
                    !.currentEnergy = Min(MAX_ENERGY, w.currentEnergy + KILL_REFUND)]
     ELSE [w EXCEPT !.obj = [w.obj EXCEPT ![id] = moved]]

RECURSIVE EnemyLoop(_, _)
EnemyLoop(w, i) ==
  IF i = 0 THEN w
  ELSE CHOOSE r \in {EnemyLoop(v, i - 1) : v \in {EnemyStep(w, i)}} : TRUE

\* ProjectileStep with a hit that deals half of the damage
ProjectileStepGrazing(w, i) ==
  LET p == w.projectiles[i]
      t == w.obj[p.target]
      dx == t.x - p.x
      dy == t.y - p.y
      d2 == dx * dx + dy * dy
      dist == Sqrt(d2)
      hp == t.hp - p.damage \div 2
  IN IF t.hp <= 0
     THEN [w EXCEPT !.projectiles = RemoveAt(w.projectiles, i)]
     ELSE IF d2 < Px(BUFFER_SPEED) * Px(BUFFER_SPEED)
     THEN [w EXCEPT !.obj = [w.obj EXCEPT ![p.target].hp = hp],
                    !.nodes = [k \in 1..Len(w.nodes) |->
                                 IF hp <= 0 /\ w.nodes[k].id = p.sourceNode
                                 THEN [w.nodes[k] EXCEPT !.killCount = @ + 1]
                                 ELSE w.nodes[k]],
                    !.projectiles = RemoveAt(w.projectiles, i)]
     ELSE [w EXCEPT !.projectiles[i].x = p.x + DivT(dx * Px(BUFFER_SPEED), dist),
                    !.projectiles[i].y = p.y + DivT(dy * Px(BUFFER_SPEED), dist)]

\* ProjectileStep without the test of a target that is already dead
ProjectileStepBlind(w, i) ==
  LET p == w.projectiles[i]
      t == w.obj[p.target]
      dx == t.x - p.x
      dy == t.y - p.y
      d2 == dx * dx + dy * dy
      dist == Sqrt(d2)
      hp == t.hp - p.damage
  IN IF d2 < Px(BUFFER_SPEED) * Px(BUFFER_SPEED)
     THEN [w EXCEPT !.obj = [w.obj EXCEPT ![p.target].hp = hp],
                    !.nodes = [k \in 1..Len(w.nodes) |->
                                 IF hp <= 0 /\ w.nodes[k].id = p.sourceNode
                                 THEN [w.nodes[k] EXCEPT !.killCount = @ + 1]
                                 ELSE w.nodes[k]],
                    !.projectiles = RemoveAt(w.projectiles, i)]
     ELSE [w EXCEPT !.projectiles[i].x = p.x + DivT(dx * Px(BUFFER_SPEED), dist),
                    !.projectiles[i].y = p.y + DivT(dy * Px(BUFFER_SPEED), dist)]

\* ProjectileStep with a projectile that stays in the collection after its hit
ProjectileStepLingering(w, i) ==
  LET p == w.projectiles[i]
      t == w.obj[p.target]
      dx == t.x - p.x
      dy == t.y - p.y
      d2 == dx * dx + dy * dy
      dist == Sqrt(d2)
      hp == t.hp - p.damage
  IN IF t.hp <= 0
     THEN [w EXCEPT !.projectiles = RemoveAt(w.projectiles, i)]
     ELSE IF d2 < Px(BUFFER_SPEED) * Px(BUFFER_SPEED)
     THEN [w EXCEPT !.obj = [w.obj EXCEPT ![p.target].hp = hp],
                    !.nodes = [k \in 1..Len(w.nodes) |->
                                 IF hp <= 0 /\ w.nodes[k].id = p.sourceNode
                                 THEN [w.nodes[k] EXCEPT !.killCount = @ + 1]
                                 ELSE w.nodes[k]]]
     ELSE [w EXCEPT !.projectiles[i].x = p.x + DivT(dx * Px(BUFFER_SPEED), dist),
                    !.projectiles[i].y = p.y + DivT(dy * Px(BUFFER_SPEED), dist)]

\* ProjectileStep with a kill credited to every node
ProjectileStepShared(w, i) ==
  LET p == w.projectiles[i]
      t == w.obj[p.target]
      dx == t.x - p.x
      dy == t.y - p.y
      d2 == dx * dx + dy * dy
      dist == Sqrt(d2)
      hp == t.hp - p.damage
  IN IF t.hp <= 0
     THEN [w EXCEPT !.projectiles = RemoveAt(w.projectiles, i)]
     ELSE IF d2 < Px(BUFFER_SPEED) * Px(BUFFER_SPEED)
     THEN [w EXCEPT !.obj = [w.obj EXCEPT ![p.target].hp = hp],
                    !.nodes = [k \in 1..Len(w.nodes) |->
                                 IF hp <= 0
                                 THEN [w.nodes[k] EXCEPT !.killCount = @ + 1]
                                 ELSE w.nodes[k]],
                    !.projectiles = RemoveAt(w.projectiles, i)]
     ELSE [w EXCEPT !.projectiles[i].x = p.x + DivT(dx * Px(BUFFER_SPEED), dist),
                    !.projectiles[i].y = p.y + DivT(dy * Px(BUFFER_SPEED), dist)]

\* FirewallBuffer.update and the removal of a dead projectile, for position i
ProjectileStep(w, i) ==
  LET p == w.projectiles[i]
      t == w.obj[p.target]
      dx == t.x - p.x
      dy == t.y - p.y
      d2 == dx * dx + dy * dy
      dist == Sqrt(d2)
      hp == t.hp - p.damage
  IN IF t.hp <= 0
     THEN [w EXCEPT !.projectiles = RemoveAt(w.projectiles, i)]
     ELSE IF d2 < Px(BUFFER_SPEED) * Px(BUFFER_SPEED)
     THEN [w EXCEPT !.obj = [w.obj EXCEPT ![p.target].hp = hp],
                    !.nodes = [k \in 1..Len(w.nodes) |->
                                 IF hp <= 0 /\ w.nodes[k].id = p.sourceNode
                                 THEN [w.nodes[k] EXCEPT !.killCount = @ + 1]
                                 ELSE w.nodes[k]],
                    !.projectiles = RemoveAt(w.projectiles, i)]
     ELSE [w EXCEPT !.projectiles[i].x = p.x + DivT(dx * Px(BUFFER_SPEED), dist),
                    !.projectiles[i].y = p.y + DivT(dy * Px(BUFFER_SPEED), dist)]

RECURSIVE ProjectileLoop(_, _)
ProjectileLoop(w, i) ==
  IF i = 0 THEN w
  ELSE CHOOSE r \in {ProjectileLoop(v, i - 1) : v \in {ProjectileStep(w, i)}} : TRUE

\* NodeSlow with auras that multiply
NodeSlowStacking(n, ids, obj) ==
  IF NodeSlowPower(n.card) <= 0 THEN obj
  ELSE [id \in DOMAIN obj |->
          IF Includes(ids, id) /\ InRange(n, obj[id])
          THEN [obj[id] EXCEPT !.slowFactor = (@ * (100 - NodeSlowPower(n.card))) \div 100]
          ELSE obj[id]]

\* the slow aura of SecurityNode.update on the packets of the collection
NodeSlow(n, ids, obj) ==
  IF NodeSlowPower(n.card) <= 0 THEN obj
  ELSE [id \in DOMAIN obj |->
          IF Includes(ids, id) /\ InRange(n, obj[id])
          THEN [obj[id] EXCEPT !.slowFactor = Min(@, 100 - NodeSlowPower(n.card))]
          ELSE obj[id]]

\* NodeStep that fires whatever the cooldown
NodeStepRapid(w, i, dt) ==
  LET n == NodeReroute(w.nodes[i], dt)
      obj == NodeSlow(n, w.enemies, w.obj)
      target == findTarget(n, w.enemies, obj)
  IN IF NodeDamage(n.card) <= 0
     THEN [w EXCEPT !.nodes[i] = n, !.obj = obj]
     ELSE IF target = 0
     THEN [w EXCEPT !.nodes[i] = n, !.obj = obj]
     ELSE [w EXCEPT !.nodes[i] = [n EXCEPT !.cooldown = 10000 \div NodeFireRate(n.card)],
                    !.obj = obj,
                    !.projectiles = Append(w.projectiles,
                        FirewallBuffer(n.x, n.y, w.enemies[target],
                                       NodeDamage(n.card), n.id))]

\* SecurityNode.update with the fire callback of the loop, for node i
NodeStep(w, i, dt) ==
  LET n == NodeReroute(w.nodes[i], dt)
      obj == NodeSlow(n, w.enemies, w.obj)
      target == findTarget(n, w.enemies, obj)
  IN IF NodeDamage(n.card) <= 0
     THEN [w EXCEPT !.nodes[i] = n, !.obj = obj]
     ELSE IF n.cooldown > 0
     THEN [w EXCEPT !.nodes[i] = [n EXCEPT !.cooldown = n.cooldown - dt], !.obj = obj]
     ELSE IF target = 0
     THEN [w EXCEPT !.nodes[i] = n, !.obj = obj]
     ELSE [w EXCEPT !.nodes[i] = [n EXCEPT !.cooldown = 10000 \div NodeFireRate(n.card)],
                    !.obj = obj,
                    !.projectiles = Append(w.projectiles,
                        FirewallBuffer(n.x, n.y, w.enemies[target],
                                       NodeDamage(n.card), n.id))]

RECURSIVE NodeLoop(_, _, _)
NodeLoop(w, i, dt) ==
  IF i > Len(w.nodes) THEN w
  ELSE CHOOSE r \in {NodeLoop(v, i + 1, dt) : v \in {NodeStep(w, i, dt)}} : TRUE

\* the objects still referred to: the collection and the projectile targets
Live(w) ==
  LET keep == {w.enemies[i] : i \in 1..Len(w.enemies)}
                \cup {w.projectiles[i].target : i \in 1..Len(w.projectiles)}
  IN [w EXCEPT !.obj = [id \in keep |-> w.obj[id]]]

\* App.tsx 801-845
Frame(w, dt) ==
  CHOOSE r \in {Live(NodeLoop(flown, 1, dt)) :
                 flown \in {ProjectileLoop(moved, Len(moved.projectiles)) :
                   moved \in {EnemyLoop(spawned, Len(spawned.enemies)) :
                     spawned \in {Spawn(w, dt)}}}} : TRUE

\* WaveCleared without the test of the enemy collection
WaveClearedEarly(w) == w.enemiesToSpawn = 0

\* WaveCleared that asks for a defeated packet
WaveClearedByDefeat(w) == w.enemiesToSpawn = 0 /\ w.enemies = <<>> /\ w.defeatedCount > 0

\* the wave is over when nothing is left to spawn and no packet is on the grid
WaveCleared(w) == w.enemiesToSpawn = 0 /\ w.enemies = <<>>

\* one call of loop: the wave section, endWave when the wave is cleared,
\* syncUI, and the effect on kernelHP of the render that follows
Tick(dt) ==
  /\ isGameStarted
  /\ \E w \in {IF activeWave /\ sessionActive THEN Frame(World, dt) ELSE World} :
     LET running == activeWave /\ sessionActive
         ended == running /\ WaveCleared(w)
         synced == kernelHP # w.currentHP \/ energyPoints # w.currentEnergy
         hp == IF synced THEN w.currentHP ELSE kernelHP
         k == KernelHPEffect(hp, sessionActive, auditReport, prevHpRef)
     IN /\ enemies' = w.enemies
        /\ packetObj' = w.obj
        /\ projectiles' = w.projectiles
        /\ nodes' = w.nodes
        /\ currentHP' = w.currentHP
        /\ currentEnergy' = w.currentEnergy
        /\ defeatedCount' = w.defeatedCount
        /\ enemiesToSpawn' = w.enemiesToSpawn
        /\ spawnTimer' = w.spawnTimer
        /\ nextId' = w.nextId
        /\ savesScheduled' = w.saves
        \* endWave (App.tsx 416-438)
        /\ activeWave' = IF ended THEN FALSE ELSE activeWave
        /\ selectedNodeIndex' = IF ended THEN 0 ELSE selectedNodeIndex
        /\ reroutingNodeIndex' = IF ended THEN 0 ELSE reroutingNodeIndex
        /\ isWaveSummaryOpen' = IF ended THEN TRUE ELSE isWaveSummaryOpen
        /\ lastLog' = IF ended THEN "[SYS] SECTOR STABILIZED. PREPARING TELEMETRY AUDIT..."
                      ELSE lastLog
        \* syncUI (App.tsx 709-722)
        /\ kernelHP' = hp
        /\ energyPoints' = IF synced THEN w.currentEnergy ELSE energyPoints
        /\ sessionActive' = k.sessionActive
        /\ auditReport' = k.auditReport
        /\ prevHpRef' = k.prevHpRef
  /\ UNCHANGED <<cardVars, isProcessing, isGameStarted, selectedIndices,
                 advisoryVars>>

---------------------------------------------------------------------------
(* Specifications *)

\* frame times, in ms
FrameTimes == {400}

\* tiles the operator clicks: one on the route, one off it
Tiles == {<<2, 3>>, <<3, 3>>}

\* hand slots the operator selects, and hand slots the operator purges
Slots == 1..MaxSlot
PurgeSlots == 1..MaxPurgeSlot

\* The deck-building session between waves: every handler of the operator
\* on the hand and the grid, with frames passing.
NextCards ==
  \/ startGame
  \/ \E i \in Slots : CardClick(i)
  \/ \E i \in Slots : KeyDigit(i)
  \/ KeyEscape
  \/ \E i \in PurgeSlots : purgeCard(i)
  \/ decompileNode
  \/ initReroute
  \/ \E t \in Tiles : handleCanvasClick(t[1], t[2])
  \/ \E dt \in FrameTimes : Tick(dt)

SpecCards == Init /\ [][NextCards]_vars

\* the outcomes of the attempts of one advisory call
AttemptOutcomes ==
  {<<"ok">>, <<"rate_limit", "ok">>, <<"error">>, <<"not_found">>,
   <<"rate_limit", "rate_limit", "rate_limit">>}

Raw(d, t, ids) == [wave_difficulty |-> d, malware_type |-> t, suggested_cards_ids |-> ids]

\* the replies of the advisor: a difficulty above the range with an id the
\* catalog does not know, six suggested cards, and a reply without fields
RawReplies ==
  {Raw(<<20>>, <<>>, <<"ghost_protocol", "vpn_tunnel", "basic_firewall">>),
   Raw(<<13>>, <<"SWARM_PACKET">>,
       <<"scout_sensor", "static_burst", "basic_firewall", "vpn_tunnel",
         "corrosive_script", "quantum_gate">>),
   Raw(<<>>, <<>>, <<>>)}

\* the tile the operator builds on during the campaign
WaveTile == <<3, 3>>

\* The campaign: waves run frame by frame, the operator builds between
\* waves from the first hand slot, and every wave boundary goes through
\* the advisory call.
NextWave ==
  \/ startGame
  \/ (~activeWave /\ KeyDigit(1))
  \/ (~activeWave /\ handleCanvasClick(WaveTile[1], WaveTile[2]))
  \/ (waveNumber < MaxWaves /\ startWave)
  \/ \E dt \in FrameTimes : Tick(dt)
  \/ proceedToNextCycle
  \/ \E a \in AttemptOutcomes, r \in RawReplies : AegisReturn(a, r)
  \/ abortAuditAndTerminate
  \/ closeSummaryAndShowAudit

SpecWave == Init /\ [][NextWave]_vars

\* The first wave boundary when nothing is built, with frames that keep
\* coming and an advisory call that may stay pending for ever.
NextBoundary ==
  \/ startGame
  \/ (waveNumber < 1 /\ startWave)
  \/ \E dt \in FrameTimes : Tick(dt)
  \/ proceedToNextCycle
  \/ \E a \in AttemptOutcomes, r \in RawReplies : AegisReturn(a, r)

SpecBoundary ==
  /\ Init
  /\ [][NextBoundary]_vars
  /\ WF_vars(\E dt \in FrameTimes : Tick(dt))
  /\ WF_vars(startGame)
  /\ WF_vars(waveNumber < 1 /\ startWave)
  /\ WF_vars(proceedToNextCycle)

\* The breach loop on its own: the second wave, entered through a reply
\* without fields, with one to MaxPackets packets left on the last stretch
\* of the route in every arrangement and the core at every integrity from
\* the first breachless wave down to 0.
PacketNearCore(k) ==
  [x |-> TileCenter(path[Len(path)][1]) - k * Px(BASE_SPEED),
   y |-> TileCenter(path[Len(path)][2]),
   hp |-> Hp(BASE_HP), baseSpeed |-> Px(BASE_SPEED),
   pathIndex |-> IF k = 0 THEN Len(path) ELSE Len(path) - 1, slowFactor |-> 100]

\* packets in the collection at the start, and frames each is from the core
PacketCounts == 1..MaxPackets
FramesAway == 0..2

CoreLevels == {0} \cup {INITIAL_HP - k * CORE_DAMAGE : k \in 4..8}

InitBreach ==
  /\ \E n \in PacketCounts :
       /\ packetObj \in [1..n -> {PacketNearCore(k) : k \in FramesAway}]
       /\ enemies = [i \in 1..n |-> i]
       /\ nextId = n + 1
  /\ currentHP \in CoreLevels
  /\ kernelHP = currentHP
  /\ savesScheduled = IF currentHP = 0 THEN 1 ELSE 0
  /\ energyPoints = INITIAL_ENERGY + WAVE_BONUS
  /\ currentEnergy = energyPoints
  /\ waveNumber = 1
  /\ hand = <<"basic_firewall", "protocol_sentry", "scout_sensor",
              "basic_firewall", "basic_firewall">>
  /\ deck = <<>>
  /\ discard = <<"protocol_sentry", "system_scan", "static_burst",
                 "scout_sensor", "scout_sensor">>
  /\ isProcessing = FALSE
  /\ isGameStarted = TRUE
  /\ sessionActive = TRUE
  /\ isWaveSummaryOpen = FALSE
  /\ lastGeminiResponse = <<Sanitize(Raw(<<>>, <<>>, <<>>))>>
  /\ lastLog = "[WAVE] COMMENCING SECURITY AUDIT..."
  /\ activeWave = TRUE
  /\ selectedIndices = <<>>
  /\ selectedNodeIndex = 0
  /\ reroutingNodeIndex = 0
  /\ auditReport = FALSE
  /\ prevHpRef = INITIAL_HP
  /\ nodes = <<>>
  /\ projectiles = <<>>
  /\ defeatedCount = 0
  /\ enemiesToSpawn = 0
  /\ spawnTimer = 0
  /\ difficultyMultiplier = DIFFICULTY_DEFAULT
  /\ aegisCall = "idle"
  /\ fnResults = <<>>

NextBreach == \E dt \in FrameTimes : Tick(dt)

SpecBreach == InitBreach /\ [][NextBreach]_vars

\* The last stretch of the route under a slow aura: as the last frames of
\* a wave, with a vpn_tunnel next to the core whose aura covers the packets.
CoreNodeTile == <<9, 4>>

InitCursor ==
  /\ \E n \in PacketCounts :
       /\ packetObj \in [1..n -> {[PacketNearCore(k) EXCEPT !.slowFactor = 100 - NodeSlowPower("vpn_tunnel")] :
                                    k \in FramesAway}]
       /\ enemies = [i \in 1..n |-> i]
       /\ nodes = <<SecurityNode(n + 1, CoreNodeTile[1], CoreNodeTile[2], "vpn_tunnel")>>
       /\ nextId = n + 2
  /\ currentHP \in CoreLevels
  /\ kernelHP = currentHP
  /\ savesScheduled = IF currentHP = 0 THEN 1 ELSE 0
  /\ energyPoints = INITIAL_ENERGY + WAVE_BONUS - Cost("vpn_tunnel")
  /\ currentEnergy = energyPoints
  /\ waveNumber = 1
  /\ hand = <<"basic_firewall", "protocol_sentry", "scout_sensor", "basic_firewall">>
  /\ deck = <<>>
  /\ discard = <<"protocol_sentry", "system_scan", "static_burst",
                 "scout_sensor", "scout_sensor", "vpn_tunnel">>
  /\ isProcessing = FALSE
  /\ isGameStarted = TRUE
  /\ sessionActive = TRUE
  /\ isWaveSummaryOpen = FALSE
  /\ lastGeminiResponse =
       <<Sanitize(Raw(<<>>, <<>>, <<"vpn_tunnel", "basic_firewall", "protocol_sentry",
                                    "scout_sensor", "basic_firewall">>))>>
  /\ lastLog = "[WAVE] COMMENCING SECURITY AUDIT..."
  /\ activeWave = TRUE
  /\ selectedIndices = <<>>
  /\ selectedNodeIndex = 0
  /\ reroutingNodeIndex = 0
  /\ auditReport = FALSE
  /\ prevHpRef = INITIAL_HP
  /\ projectiles = <<>>
  /\ defeatedCount = 0
  /\ enemiesToSpawn = 0
  /\ spawnTimer = 0
  /\ difficultyMultiplier = DIFFICULTY_DEFAULT
  /\ aegisCall = "idle"
  /\ fnResults = <<>>

NextCursor == \E dt \in FrameTimes : Tick(dt)

SpecCursor == InitCursor /\ [][NextCursor]_vars

\* The grid between waves: the operator deploys from the first hand slots,
\* selects, reroutes and decompiles nodes on one tile of the route and two
\* tiles off it.
GridTiles == {<<2, 3>>, <<3, 3>>, <<4, 3>>}

NextGrid ==
  \/ startGame
  \/ \E i \in Slots : KeyDigit(i)
  \/ decompileNode
  \/ initReroute
  \/ \E t \in GridTiles : handleCanvasClick(t[1], t[2])
  \/ \E dt \in FrameTimes : Tick(dt)

SpecGrid == Init /\ [][NextGrid]_vars

\* The campaign with a recall at its end: as the campaign, and once the last
\* wave boundary is passed the operator decompiles the selected node.
NextRecall ==
  \/ NextWave
  \/ (waveNumber = MaxWaves /\ decompileNode)

SpecRecall == Init /\ [][NextRecall]_vars

\* The first wave boundary with the advisory call followed attempt by
\* attempt: every invocation of fn returns, or throws an error whose message
\* names a rate limit, a missing entity, both or neither.
FnOutcomes == {"ok", "rate_limit", "not_found", "rate_limit_not_found", "error"}

NextRetry ==
  \/ startGame
  \/ (waveNumber < 1 /\ startWave)
  \/ \E dt \in FrameTimes : Tick(dt)
  \/ proceedToNextCycle
  \/ \E o \in FnOutcomes : withRetryAttempt(o)
  \/ \E r \in RawReplies : withRetrySettles(r)

SpecRetry == Init /\ [][NextRetry]_vars

\* The campaign under an erratic advisor: nothing is built, and the replies
\* carry difficulties below, inside and above the range, with each kind of
\* malware.
AdviceReplies ==
  {Raw(<<5>>, <<"ARMORED_ELITE">>, <<"basic_firewall">>),
   Raw(<<20>>, <<"SWARM_PACKET">>, <<"basic_firewall">>),
   Raw(<<11>>, <<"STEALTH_WORM">>, <<"basic_firewall">>),
   Raw(<<>>, <<>>, <<>>)}

NextAdvice ==
  \/ startGame
  \/ (waveNumber < MaxWaves /\ startWave)
  \/ \E dt \in FrameTimes : Tick(dt)
  \/ proceedToNextCycle
  \/ \E a \in AttemptOutcomes, r \in AdviceReplies : AegisReturn(a, r)

SpecAdvice == Init /\ [][NextAdvice]_vars

\* The campaign with every handler that moves energy: as the campaign with
\* a recall, and when the pool is nearly empty the operator also purges the
\* first hand slot and reroutes the selected node, in a wave or between
\* waves.
EnergyTile == <<4, 3>>

NextEnergy ==
  \/ NextRecall
  \/ (energyPoints < 2 * PURGE_COST /\ purgeCard(1))
  \/ (energyPoints < 2 * PURGE_COST /\ initReroute)
  \/ (energyPoints < 2 * PURGE_COST /\ handleCanvasClick(EnergyTile[1], EnergyTile[2]))

SpecEnergy == Init /\ [][NextEnergy]_vars

\* The start of the first wave with reroutes: frames of 150 ms, so that an
\* animation takes two updates; the operator builds before the wave and
\* selects and reroutes the node between two free tiles, before the wave
\* and until its first packet enters; the frames are followed until the
\* second packet has entered.
RerouteTimes == {150}
RerouteTiles == {<<3, 3>>, <<4, 3>>}
RerouteWindow == ~activeWave \/ enemiesToSpawn >= WAVE_BASE
RerouteHorizon == ~activeWave \/ enemiesToSpawn >= WAVE_BASE - 1

NextReroute ==
  \/ startGame
  \/ (~activeWave /\ KeyDigit(1))
  \/ (RerouteWindow /\ \E t \in RerouteTiles : handleCanvasClick(t[1], t[2]))
  \/ (RerouteWindow /\ initReroute)
  \/ (waveNumber = 0 /\ startWave)
  \/ (RerouteHorizon /\ \E dt \in RerouteTimes : Tick(dt))

SpecReroute == Init /\ [][NextReroute]_vars

\* the frame loop runs for ever
FairReroute ==
  SpecReroute /\ WF_vars(RerouteHorizon /\ \E dt \in RerouteTimes : Tick(dt))

\* The first wave with the core defended: the operator builds from the
\* first hand slots on the free tiles around the last stretch of the route.
CoreTiles == {<<9, 4>>, <<9, 6>>}

NextCore ==
  \/ startGame
  \/ \E i \in 1..HAND_SIZE : KeyDigit(i)
  \/ (~activeWave /\ \E t \in CoreTiles : handleCanvasClick(t[1], t[2]))
  \/ (waveNumber = 0 /\ startWave)
  \/ \E dt \in FrameTimes : Tick(dt)

SpecCore == Init /\ [][NextCore]_vars

\* The campaign with slow auras: the first wave passes with nothing built,
\* the advisor then hands out two vpn_tunnel cards among five, the operator
\* builds from the first two hand slots on two tiles next to the first
\* stretch of the route, and the second wave runs through the auras.
SlowReply ==
  Raw(<<>>, <<>>, <<"vpn_tunnel", "vpn_tunnel", "protocol_sentry",
                    "basic_firewall", "scout_sensor">>)

SlowTiles == {<<1, 4>>, <<3, 4>>}

NextSlow ==
  \/ startGame
  \/ (waveNumber = 1 /\ \E i \in Slots : KeyDigit(i))
  \/ (waveNumber = 1 /\ ~activeWave /\ \E t \in SlowTiles : handleCanvasClick(t[1], t[2]))
  \/ (waveNumber < MaxWaves /\ startWave)
  \/ \E dt \in FrameTimes : Tick(dt)
  \/ proceedToNextCycle
  \/ AegisReturn(<<"ok">>, SlowReply)

SpecSlow == Init /\ [][NextSlow]_vars

\* Two waves with a frame loop that keeps running: nothing is built for the
\* first wave, and for the second the operator may build the slowing tower
\* of the first hand slot beside the route.
NextResolve ==
  \/ startGame
  \/ (waveNumber = 1 /\ KeyDigit(1))
  \/ (waveNumber = 1 /\ ~activeWave /\ handleCanvasClick(3, 4))
  \/ (waveNumber < MaxWaves /\ startWave)
  \/ \E dt \in FrameTimes : Tick(dt)
  \/ proceedToNextCycle
  \/ AegisReturn(<<"ok">>, SlowReply)

SpecResolve == Init /\ [][NextResolve]_vars

FairResolve == SpecResolve /\ WF_vars(\E dt \in FrameTimes : Tick(dt))

---------------------------------------------------------------------------
(* Properties of the deck-building session *)

\* a step of handleCanvasClick on one of the tiles the operator clicks
CanvasClickStep == \E t \in Tiles : handleCanvasClick(t[1], t[2])

\* a step that deploys a node
DeployStep == Len(nodes') = Len(nodes) + 1

CardTotal == Len(deck) + Len(discard) + Len(hand)

\* C1 (placement atomicity): a canvas click made while exactly one hand card
\* is selected either deducts exactly that card's cost from the energy (both
\* stores), removes exactly that one card from the hand and adds exactly one
\* tower holding it, or leaves energy, hand, deck, discard and towers all
\* unchanged.
C1_PlacementAtomic ==
  [][(Len(selectedIndices) = 1 /\ CanvasClickStep) =>
       \/ /\ selectedIndices[1] <= Len(hand)
          /\ energyPoints' = energyPoints - Cost(hand[selectedIndices[1]])
          /\ currentEnergy' = currentEnergy - Cost(hand[selectedIndices[1]])
          /\ hand' = RemoveAt(hand, selectedIndices[1])
          /\ Len(nodes') = Len(nodes) + 1
          /\ SubSeq(nodes', 1, Len(nodes)) = nodes
          /\ nodes'[Len(nodes')].card = hand[selectedIndices[1]]
       \/ UNCHANGED <<energyPoints, currentEnergy, hand, deck, discard, nodes>>]_vars

\* C1 witness: a node was just deployed from the starting hand and paid for
C1_Deployed ==
  /\ lastLog = "[SYS] NODE DEPLOYED"
  /\ Len(nodes) = 1
  /\ Len(hand) = HAND_SIZE - 1
  /\ energyPoints = INITIAL_ENERGY - Cost(nodes[1].card)

\* C2 (card conservation), as the specification states it: no step changes
\* the number of cards held by deck, discard and hand together.
C2_CardTotalConstant ==
  [][Len(deck') + Len(discard') + Len(hand') = CardTotal]_vars

---------------------------------------------------------------------------
(* Properties of the campaign *)

\* a step in which the advisory call settles
AegisReturnStep == aegisCall = "pending" /\ aegisCall' = "idle"

\* a step in which the advisory call settles by failing
AegisFailureStep ==
  \E a \in AttemptOutcomes, r \in RawReplies :
    withRetry(a, 1) = "throw" /\ AegisReturn(a, r)

\* C3 (hand capacity), as the specification states it: the hand never holds
\* more than five cards, whichever draw produced it.
C3_HandAtMostFive == Len(hand) <= HAND_SIZE

\* C4 (terminal state), as the specification states it: once the core
\* integrity is 0 the session is no longer active and no step spawns, moves
\* or removes an enemy, resolves a wave or starts one.
C4_TerminalHalts ==
  [][kernelHP <= 0 =>
       /\ ~sessionActive
       /\ enemies' = enemies
       /\ packetObj' = packetObj
       /\ enemiesToSpawn' = enemiesToSpawn
       /\ activeWave' = activeWave
       /\ (isWaveSummaryOpen' => isWaveSummaryOpen)]_vars

\* C5 (game-over side effects): the session save is scheduled in a step
\* exactly when that step is a frame of a running wave that takes the core
\* integrity from above 0 to 0, once however many enemies breach in the
\* frame, and so at most once in the session.
C5_SavedOnce ==
  /\ [](savesScheduled <= 1)
  /\ [][savesScheduled' =
          IF activeWave /\ currentHP > 0 /\ currentHP' <= 0
          THEN savesScheduled + 1 ELSE savesScheduled]_vars

\* C5 witness: three packets have breached, the wave is resolved, the core
\* is at 0 and one save is scheduled
C5_BreachedAtZero ==
  /\ savesScheduled = 1
  /\ currentHP = 0
  /\ isWaveSummaryOpen
  /\ nextId = MaxPackets + 1
  /\ enemies = <<>>

\* C6, as the specification states it: while the advisory call stays
\* pending the processing flag is eventually cleared, with the wave counter
\* raised and a hand drawn.
C6_ProcessingCleared ==
  isProcessing ~> (~isProcessing /\ waveNumber >= 1 /\ Len(hand) > 0)

\* C7, as the specification states it: a failed advisory call leaves the
\* difficulty multiplier at its prior value.
C7_DifficultyKept ==
  [][AegisFailureStep => difficultyMultiplier' = difficultyMultiplier]_vars

\* C8, as the specification states it: after a failed advisory call the wave
\* counter is one higher, the energy bonus is strictly smaller than the
\* bonus of the success path, and the new hand is a normal draw that holds
\* no advisor card.
C8_FailureIsLean ==
  [][AegisFailureStep =>
       /\ waveNumber' = waveNumber + 1
       /\ energyPoints' < Min(MAX_ENERGY, energyPoints + WAVE_BONUS)
       /\ \E o \in drawHand(<<>>, deck, discard) :
            hand' = o.hand /\ deck' = o.deck /\ discard' = o.discard]_vars

\* C9 (advisory result): the step in which the advisory call settles raises
\* the wave counter by one, sets the energy to min(MAX_ENERGY, energy + 15),
\* sets the difficulty multiplier to the returned value, clears the
\* processing flag, and leaves a hand that starts with the catalog card of
\* each suggested id in order, protocol_sentry standing in for an id the
\* catalog does not know.
C9_ResultApplied ==
  [][AegisReturnStep =>
       LET aegis == lastGeminiResponse'[1]
           ids == aegis.suggested_cards_ids
       IN /\ waveNumber' = waveNumber + 1
          /\ energyPoints' = Min(MAX_ENERGY, energyPoints + WAVE_BONUS)
          /\ currentEnergy' = energyPoints'
          /\ difficultyMultiplier' = aegis.wave_difficulty
          /\ ~isProcessing'
          /\ Len(hand') >= Len(ids)
          /\ \A j \in 1..Len(ids) :
               hand'[j] = IF ids[j] \in DOMAIN MASTER_CARD_POOL THEN ids[j]
                          ELSE "protocol_sentry"]_vars

\* C9 witness: the first advisory call returned a reply whose first id the
\* catalog does not know, and the hand starts with protocol_sentry
C9_UnknownIdReplaced ==
  /\ waveNumber = 1
  /\ ~isProcessing
  /\ lastGeminiResponse # <<>>
  /\ lastGeminiResponse[1].suggested_cards_ids[1] = "ghost_protocol"
  /\ hand[1] = "protocol_sentry"
  /\ difficultyMultiplier = DIFFICULTY_MAX

---------------------------------------------------------------------------
(* Properties of the grid *)

\* a step of handleCanvasClick on one of the tiles of the grid session
GridClickStep == \E t \in GridTiles : handleCanvasClick(t[1], t[2])

\* C11 (tower occupancy): in every reachable state no two towers have the
\* same grid tile and no tower's grid tile lies on the enemy path.
C11_TowersApart ==
  \A i \in 1..Len(nodes) :
    /\ ~isTileOnPath(nodes[i].gridX, nodes[i].gridY)
    /\ \A j \in 1..Len(nodes) :
         (nodes[i].gridX = nodes[j].gridX /\ nodes[i].gridY = nodes[j].gridY) => i = j

\* C11 witness: two towers stand on the grid, one of them rerouted to the
\* tile that a decompiled tower left
C11_Rerouted ==
  /\ Len(nodes) = 2
  /\ \E i \in 1..2 : nodes[i].isRerouting
  /\ \E i \in 1..2 : nodes[i].id >= 3

\* a step that takes a node off the grid
DecompileStep == Len(nodes') = Len(nodes) - 1

\* C12 (decompile rule): removing a tower deletes exactly the selected tower;
\* with fewer than 5 cards in hand its card returns to the hand and
\* floor(cost * 0.5) energy is added, otherwise the hand is unchanged and
\* floor(cost * 0.8) energy is added; the energy is capped at MAX_ENERGY.
C12_DecompileRule ==
  [][DecompileStep =>
       /\ selectedNodeIndex \in 1..Len(nodes)
       /\ nodes' = RemoveAt(nodes, selectedNodeIndex)
       /\ LET card == nodes[selectedNodeIndex].card
          IN IF Len(hand) < 5
             THEN /\ hand' = Append(hand, card)
                  /\ energyPoints' = Min(MAX_ENERGY, energyPoints + (Cost(card) * 5) \div 10)
                  /\ currentEnergy' = Min(MAX_ENERGY, currentEnergy + (Cost(card) * 5) \div 10)
             ELSE /\ hand' = hand
                  /\ energyPoints' = Min(MAX_ENERGY, energyPoints + (Cost(card) * 8) \div 10)
                  /\ currentEnergy' = Min(MAX_ENERGY, currentEnergy + (Cost(card) * 8) \div 10)]_vars

\* C12 witness: a tower was decompiled while the hand was full and the
\* refund met the cap
C12_OverflowAtCap ==
  /\ lastLog = "[SYS] BUFFER OVERFLOW"
  /\ Len(hand) >= HAND_SIZE
  /\ nodes = <<>>
  /\ energyPoints = MAX_ENERGY

\* C13 (reroute): a click made in reroute mode succeeds exactly when the
\* destination is unoccupied, off the path and the energy is at least
\* max(1, floor(cost * 0.1)); a successful reroute charges exactly that
\* cost, sets the tower's grid coordinates to the destination at once and
\* starts the reposition animation from the tower's pixel position.
C13_RerouteCharged ==
  [][\A t \in GridTiles :
       (reroutingNodeIndex # 0 /\ handleCanvasClick(t[1], t[2])) =>
         LET r == reroutingNodeIndex
             cost == Max(1, (Cost(nodes[r].card) * 1) \div 10)
             free == /\ \A i \in 1..Len(nodes) :
                          ~(nodes[i].gridX = t[1] /\ nodes[i].gridY = t[2])
                     /\ ~isTileOnPath(t[1], t[2])
         IN IF free /\ energyPoints >= cost
            THEN /\ energyPoints' = energyPoints - cost
                 /\ currentEnergy' = currentEnergy - cost
                 /\ Len(nodes') = Len(nodes)
                 /\ \A i \in 1..Len(nodes) : i # r => nodes'[i] = nodes[i]
                 /\ nodes'[r].gridX = t[1]
                 /\ nodes'[r].gridY = t[2]
                 /\ nodes'[r].isRerouting
                 /\ nodes'[r].rerouteTimer = 0
                 /\ nodes'[r].x = nodes[r].x
                 /\ nodes'[r].y = nodes[r].y
                 /\ nodes'[r].startX = nodes[r].x
                 /\ nodes'[r].startY = nodes[r].y
                 /\ nodes'[r].targetX = TileCenter(t[1])
                 /\ nodes'[r].targetY = TileCenter(t[2])
            ELSE UNCHANGED <<nodes, energyPoints, currentEnergy>>]_vars

\* C13 witness: a reroute has just been carried out; the tower is on its
\* destination tile by grid coordinates and still at its old pixel position
C13_RerouteUnderWay ==
  /\ lastLog = "[SYS] REROUTE COMPLETE"
  /\ \E i \in 1..Len(nodes) :
       /\ nodes[i].isRerouting
       /\ nodes[i].x # TileCenter(nodes[i].gridX)
       /\ nodes[i].targetX = TileCenter(nodes[i].gridX)
  /\ energyPoints < INITIAL_ENERGY

\* C14 (reroute rejection): a click made in reroute mode on an occupied tile
\* or on a tile of the path leaves every tower's grid position and pixel
\* position and the energy unchanged and puts a rejection entry on the log.
C14_RerouteRejected ==
  [][\A t \in GridTiles :
       (/\ reroutingNodeIndex # 0
        /\ handleCanvasClick(t[1], t[2])
        /\ \/ \E i \in 1..Len(nodes) : nodes[i].gridX = t[1] /\ nodes[i].gridY = t[2]
           \/ isTileOnPath(t[1], t[2]))
       => /\ nodes' = nodes
          /\ energyPoints' = energyPoints
          /\ currentEnergy' = currentEnergy
          /\ lastLog' = "[ERROR] PORT UNAVAILABLE. REROUTE CANCELLED."]_vars

\* C14 witness: with two towers on the grid a reroute was just rejected for
\* its destination and reroute mode is left
C14_Cancelled ==
  /\ lastLog = "[ERROR] PORT UNAVAILABLE. REROUTE CANCELLED."
  /\ Len(nodes) = 2
  /\ reroutingNodeIndex = 0

---------------------------------------------------------------------------
(* Properties of fusion *)

\* a step that toggles hand slot j, by the pointer or by its digit key
ToggleStep(j) == CardClick(j) \/ KeyDigit(j)

\* C15 (fusion), as the specification states it: two hand cards of identical
\* id whose card defines a fusion target can be selected together, so that
\* fusing them replaces the two by one fusion-target card: selecting the
\* second of the pair while the first is selected leaves both selected.
C15_PairSelected ==
  [][\A j \in Slots :
       (/\ Len(selectedIndices) = 1
        /\ selectedIndices[1] # j
        /\ selectedIndices[1] <= Len(hand)
        /\ j <= Len(hand)
        /\ hand[j] = hand[selectedIndices[1]]
        /\ MASTER_CARD_POOL[hand[j]].fusionTargetId # NoCard
        /\ ToggleStep(j))
       => canFuse']_vars

---------------------------------------------------------------------------
(* Properties of rejected actions *)

\* the log entries the handlers of the hand and the grid write when they
\* turn an action down (App.tsx 509, 618, 624, 653, 663, 682)
RejectionEntries ==
  {"[ERROR] INSUFFICIENT ENERGY FOR DATA PURGE.",
   "[ERROR] PORT UNAVAILABLE. REROUTE CANCELLED.",
   "[ERROR] INSUFFICIENT RAM FOR REROUTE.",
   "[SYS] ACCESSING SECTOR NODE",
   "[ERROR] SECTOR PORT UNAVAILABLE.",
   "[ERROR] INSUFFICIENT ENERGY FOR DEPLOYMENT."}

\* the stores an action that is turned down must leave alone
Kept == UNCHANGED <<energyPoints, currentEnergy, hand, deck, discard, nodes>>

\* C16 (invalid actions), as the specification states it: a placement or a
\* reroute with too little energy or onto an occupied or path tile, and a
\* purge with too little energy, leave energy, hand, deck, discard and the
\* towers unchanged and put a status message on the log.
C16_InvalidActionLogged ==
  /\ \A t \in Tiles :
       (/\ CanvasUncovered
        /\ reroutingNodeIndex = 0
        /\ Len(selectedIndices) = 1
        /\ selectedIndices[1] <= Len(hand)
        /\ \/ NodeAt(t[1], t[2]) # 0
           \/ isTileOnPath(t[1], t[2])
           \/ energyPoints < Cost(hand[selectedIndices[1]]))
       => ENABLED (/\ handleCanvasClick(t[1], t[2])
                   /\ Kept
                   /\ lastLog' \in RejectionEntries)
  /\ \A t \in Tiles :
       (/\ CanvasUncovered
        /\ reroutingNodeIndex \in 1..Len(nodes)
        /\ \/ NodeAt(t[1], t[2]) # 0
           \/ isTileOnPath(t[1], t[2])
           \/ energyPoints < Max(1, Cost(nodes[reroutingNodeIndex].card) \div 10))
       => ENABLED (/\ handleCanvasClick(t[1], t[2])
                   /\ Kept
                   /\ lastLog' \in RejectionEntries)
  /\ \A i \in PurgeSlots :
       (i <= Len(hand) /\ energyPoints < PURGE_COST)
       => ENABLED (/\ purgeCard(i)
                   /\ Kept
                   /\ lastLog' \in RejectionEntries)

---------------------------------------------------------------------------
(* Properties of the wave *)

\* a frame of the running wave: while a wave runs, loop alone writes the
\* packets, the projectiles and the spawn queue, and every frame moves them
FrameStep ==
  /\ activeWave
  /\ sessionActive
  /\ <<enemies, packetObj, projectiles, enemiesToSpawn, spawnTimer>>'
       # <<enemies, packetObj, projectiles, enemiesToSpawn, spawnTimer>>

\* the positions of the packets a frame finds with health <= 0 that do not
\* signal the end of the route
Dead ==
  {i \in 1..Len(enemies) :
     packetObj[enemies[i]].hp <= 0 /\ ~PacketAtEnd(packetObj[enemies[i]])}

\* C17 (kill refund): every enemy a frame of the running wave finds with
\* health <= 0, not signalling reached-end, is removed in that frame; for
\* each of them defeatedCount grows by exactly 1 and the energy becomes
\* min(MAX_ENERGY, energy + 2); no other enemy is counted or refunded.
C17_KillRefund ==
  [][FrameStep =>
       /\ \A i \in Dead : \A j \in 1..Len(enemies') : enemies'[j] # enemies[i]
       /\ defeatedCount' = defeatedCount + Cardinality(Dead)
       /\ currentEnergy' = Min(MAX_ENERGY, currentEnergy + 2 * Cardinality(Dead))
       /\ energyPoints' = currentEnergy']_vars

\* C17 witness: a frame of the second wave has just counted a kill and its
\* refund has met the cap
C17_RefundAtCap ==
  /\ activeWave
  /\ waveNumber >= 1
  /\ defeatedCount > WAVE_BASE
  /\ currentEnergy = MAX_ENERGY
  /\ Len(enemies) > 0
  /\ Dead = {}

\* C18 (wave resolution): a frame of the running wave ends the wave exactly
\* when, after its enemy, projectile and tower updates, the spawn queue is 0
\* and the enemy collection is empty; no step ends a wave while enemies
\* remain to spawn or are on the path, and the end opens the wave summary.
C18_WaveResolution ==
  [][/\ FrameStep => (~activeWave' <=> (enemiesToSpawn' = 0 /\ enemies' = <<>>))
     /\ (activeWave /\ ~activeWave') =>
          /\ enemiesToSpawn' = 0
          /\ enemies' = <<>>
          /\ isWaveSummaryOpen']_vars

\* C18 witness: the first wave has just ended with every packet of it
\* defeated, nothing left to spawn and no packet on the grid
C18_Resolved ==
  /\ ~activeWave
  /\ isWaveSummaryOpen
  /\ lastLog = "[SYS] SECTOR STABILIZED. PREPARING TELEMETRY AUDIT..."
  /\ waveNumber = 0
  /\ defeatedCount = WAVE_BASE
  /\ enemiesToSpawn = 0
  /\ enemies = <<>>

\* C19 (wave start gating): no wave is started while a wave is active or
\* while the processing flag of the advisory call is set. While a wave is
\* active the spawn queue is never refilled and the spawn timer is reset
\* only by a spawn; while the processing flag is set and no wave is active,
\* the spawn queue, the spawn timer and activeWave do not change.
C19_NoWaveStart ==
  [][/\ activeWave =>
          /\ enemiesToSpawn' \in {enemiesToSpawn, enemiesToSpawn - 1}
          /\ (spawnTimer' = 0 /\ spawnTimer # 0) => enemiesToSpawn' = enemiesToSpawn - 1
          /\ lastLog' # lastLog => lastLog' # "[WAVE] COMMENCING SECURITY AUDIT..."
     /\ (isProcessing /\ ~activeWave) =>
          UNCHANGED <<enemiesToSpawn, spawnTimer, activeWave>>]_vars

\* C19 witness: the second wave, started once the advisory call had cleared
\* the processing flag, is running with part of its queue spawned
C19_SecondWaveRunning ==
  /\ activeWave
  /\ ~isProcessing
  /\ waveNumber = 1
  /\ enemiesToSpawn \in 1..(WAVE_BASE + WAVE_STEP - 1)

\* the health left of h after the hits of a frame on the packet at (tx, ty):
\* the projectiles are taken from the last to the first, and one that
\* reaches a packet whose health is above 0 takes its damage off
RECURSIVE AfterHits(_, _, _, _, _)
AfterHits(h, id, tx, ty, i) ==
  IF i = 0 THEN h
  ELSE LET p == projectiles[i]
           hit == /\ p.target = id
                  /\ h > 0
                  /\ Dist2(tx, ty, p.x, p.y) < Px(BUFFER_SPEED) * Px(BUFFER_SPEED)
       IN AfterHits(IF hit THEN h - p.damage ELSE h, id, tx, ty, i - 1)

\* C20 (health conservation): over a frame of the running wave the health of
\* every enemy goes down by exactly the total damage of the projectiles that
\* hit it in that frame, so that after hits totalling D it is the initial
\* health minus D; no step increases the health of an enemy.
C20_HealthConserved ==
  [][\A id \in DOMAIN packetObj \cap DOMAIN packetObj' :
       /\ packetObj'[id].hp <= packetObj[id].hp
       /\ FrameStep =>
            packetObj'[id].hp =
              AfterHits(packetObj[id].hp, id, packetObj'[id].x, packetObj'[id].y,
                        Len(projectiles))]_vars

\* C20 witness: in the first wave a packet on the path has taken two hits
\* of the sentry and holds its initial health less their damage
C20_TwiceHit ==
  /\ activeWave
  /\ waveNumber = 0
  /\ \E i \in 1..Len(enemies) :
       packetObj[enemies[i]].hp = Hp(BASE_HP) - 2 * NodeDamage("protocol_sentry")

---------------------------------------------------------------------------
(* Properties of projectiles *)

RECURSIVE KillTotal(_)
KillTotal(ns) == IF ns = <<>> THEN 0 ELSE Head(ns).killCount + KillTotal(Tail(ns))

\* the packets a projectile is under way to
Targeted == {projectiles[i].target : i \in 1..Len(projectiles)}

\* C21 (dead target): a projectile whose target already has health <= 0
\* when its update runs applies no damage, credits no kill and is dead, and
\* so removed, on that same call: over a frame such a target keeps its
\* health, no projectile is left under way to it, and the kill counters
\* grow by no more than the number of targets that were alive.
C21_DeadTargetSpared ==
  [][FrameStep =>
       /\ \A id \in Targeted :
            packetObj[id].hp <= 0 =>
              /\ id \in DOMAIN packetObj' => packetObj'[id].hp = packetObj[id].hp
              /\ \A i \in 1..Len(projectiles') : projectiles'[i].target # id
       /\ KillTotal(nodes') - KillTotal(nodes)
            <= Cardinality({id \in Targeted : packetObj[id].hp > 0})]_vars

\* C21 witness: a projectile is under way to a packet that another
\* projectile has already brought to health <= 0
C21_TargetAlreadyDead ==
  /\ activeWave
  /\ \E i \in 1..Len(projectiles) : packetObj[projectiles[i].target].hp <= 0

\* the projectile p is within its speed of the place its target has after
\* the packets of the frame have moved, or its target is no longer kept
Reaches(p) ==
  \/ p.target \notin DOMAIN packetObj'
  \/ Dist2(packetObj'[p.target].x, packetObj'[p.target].y, p.x, p.y)
       < Px(BUFFER_SPEED) * Px(BUFFER_SPEED)

\* the number of nodes that fired in the frame: firing alone sets the
\* cooldown to its full length
Fired ==
  Cardinality({k \in 1..Len(nodes') :
                 /\ NodeDamage(nodes'[k].card) > 0
                 /\ nodes'[k].cooldown = 10000 \div NodeFireRate(nodes'[k].card)})

\* C22 (single hit): a projectile deals its damage at most once: the call of
\* update that reaches the target is its last one, because the frame that
\* sees a projectile reach its target takes it out of the collection. The
\* projectiles a frame keeps are all among those that did not reach their
\* target in it.
C22_HitOnce ==
  [][FrameStep =>
       LET flying == SelectSeq(projectiles, LAMBDA p : ~Reaches(p))
           kept == SubSeq(projectiles', 1, Len(projectiles') - Fired)
       IN /\ Len(kept) <= Len(flying)
          /\ \A j \in 1..Len(kept) :
               \E i \in 1..Len(flying) :
                 /\ flying[i].target = kept[j].target
                 /\ flying[i].damage = kept[j].damage
                 /\ flying[i].sourceNode = kept[j].sourceNode
                 /\ <<flying[i].x, flying[i].y>> # <<kept[j].x, kept[j].y>>]_vars

\* C22 witness: a packet on the path has taken one hit of the sentry and
\* no projectile within reach of it is left in the collection
C22_HitAndGone ==
  /\ activeWave
  /\ \E i \in 1..Len(enemies) :
       /\ packetObj[enemies[i]].hp = Hp(BASE_HP) - NodeDamage("protocol_sentry")
       /\ \A j \in 1..Len(projectiles) :
            projectiles[j].target = enemies[i] =>
              Dist2(packetObj[enemies[i]].x, packetObj[enemies[i]].y,
                    projectiles[j].x, projectiles[j].y)
                >= Px(BUFFER_SPEED) * Px(BUFFER_SPEED)

---------------------------------------------------------------------------
(* Properties of the slow auras *)

\* the nodes with a slow aura that have the packet e in range
SlowingNodes(ns, e) ==
  {k \in 1..Len(ns) : NodeSlowPower(ns[k].card) > 0 /\ InRange(ns[k], e)}

\* C23 (slow decay): a packet that no aura has touched since its last move
\* moves with baseSpeed, and every moving update resets the slow factor to
\* 1: after a frame the factor of a moved packet is below 1 only if a slow
\* tower has it in range in that frame, whatever it was before.
C23_SlowDecays ==
  [][FrameStep =>
       \A i \in 1..Len(enemies) :
         LET id == enemies[i]
             e == packetObj[id]
         IN (~PacketAtEnd(e) /\ id \in DOMAIN packetObj') =>
              LET m == packetObj'[id]
                  d2 == Dist2(m.x, m.y, e.x, e.y)
              IN /\ e.slowFactor = 100 =>
                      \/ d2 = e.baseSpeed * e.baseSpeed
                      \/ d2 < e.baseSpeed * e.baseSpeed /\ m.pathIndex = e.pathIndex + 1
                 /\ (SlowingNodes(nodes', m) = {} \/ ~Includes(enemies', id))
                      => m.slowFactor = 100]_vars

\* C23 witness: with a vpn_tunnel built next to the start of the route, a
\* packet has left every aura behind and carries the slow factor 1 again
\* while a packet behind it is being slowed
C23_SlowWornOff ==
  /\ activeWave
  /\ \E i \in 1..Len(enemies) :
       /\ packetObj[enemies[i]].pathIndex >= 4
       /\ packetObj[enemies[i]].slowFactor = 100
       /\ SlowingNodes(nodes, packetObj[enemies[i]]) = {}
  /\ \E i \in 1..Len(enemies) : packetObj[enemies[i]].slowFactor < 100

\* C28 (slow effects do not stack): after the towers of a frame have
\* updated, the slow factor of every packet of the collection is the least
\* 1 - slowPower over the slow towers that have it in range, and 1 when no
\* slow tower has it in range; two auras give 0.6, not 0.36 nor 0.2.
C28_SlowestAura ==
  [][FrameStep =>
       \A i \in 1..Len(enemies') :
         LET m == packetObj'[enemies'[i]]
             auras == {100 - NodeSlowPower(nodes'[k].card) : k \in SlowingNodes(nodes', m)}
         IN m.slowFactor = IF auras = {} THEN 100
                           ELSE CHOOSE v \in auras : \A u \in auras : v <= u]_vars

\* C28 witness: a packet stands in the auras of two vpn_tunnel towers with
\* the slow factor of one of them, while another packet is in the aura of
\* one tower only
C28_TwoAuras ==
  /\ \E i \in 1..Len(enemies) :
       /\ Cardinality(SlowingNodes(nodes, packetObj[enemies[i]])) = 2
       /\ packetObj[enemies[i]].slowFactor = 100 - NodeSlowPower("vpn_tunnel")
  /\ \E i \in 1..Len(enemies) :
       Cardinality(SlowingNodes(nodes, packetObj[enemies[i]])) = 1

---------------------------------------------------------------------------
(* Properties of the energy pool *)

\* C24 (energy bounds): in every reachable state the energy pool, in the
\* game state and in the frame loop's copy, lies in 0..MAX_ENERGY
C24_EnergyBounds ==
  /\ energyPoints \in 0..MAX_ENERGY
  /\ currentEnergy \in 0..MAX_ENERGY

\* C24 witness: after waves with kills and advisory bonuses the operator
\* has spent the pool down to less than the cost of a purge, with a node
\* on the grid, and a purge has just been refused
C24_PoolDrained ==
  /\ waveNumber = MaxWaves
  /\ defeatedCount > 0
  /\ nodes # <<>>
  /\ energyPoints < PURGE_COST
  /\ lastLog = "[ERROR] INSUFFICIENT ENERGY FOR DATA PURGE."

---------------------------------------------------------------------------
(* Properties of the difficulty and of spawning *)

\* C25 (difficulty range): the difficulty multiplier applied to spawned
\* packets lies in [0.8, 1.5] in every reachable state: it is 1.0 until the
\* first advice, and afterwards it is the advised value clamped into the
\* range.
C25_DifficultyInRange ==
  /\ difficultyMultiplier \in DIFFICULTY_MIN..DIFFICULTY_MAX
  /\ lastGeminiResponse = <<>> => difficultyMultiplier = DIFFICULTY_DEFAULT
  /\ lastGeminiResponse # <<>> =>
       difficultyMultiplier = lastGeminiResponse[1].wave_difficulty

\* C25 witness: a wave runs with packets spawned under an advice whose
\* difficulty 0.5 was raised to the lower end of the range
C25_ClampedLow ==
  /\ activeWave
  /\ enemies # <<>>
  /\ difficultyMultiplier = DIFFICULTY_MIN
  /\ malwareType = "ARMORED_ELITE"

\* the packets that entered the grid in the step
Spawned == {id \in DOMAIN packetObj' : ~Includes(enemies, id) /\ Includes(enemies', id)}

\* the maxHp factor of a kind of malware, in tenths
TypeHp(type) ==
  CASE type = "SWARM_PACKET" -> 6
    [] type = "ARMORED_ELITE" -> 25
    [] type = "STEALTH_WORM" -> 12
    [] OTHER -> 10

\* the packets of the waves before wave n
RECURSIVE SpawnedBefore(_)
SpawnedBefore(n) ==
  IF n = 0 THEN 0 ELSE SpawnedBefore(n - 1) + WAVE_BASE + WAVE_STEP * (n - 1)

\* C26 (spawning): in a frame of a wave the queue stays or drops by one and
\* never falls below 0; a packet enters exactly when the queue drops, which
\* happens only when the timer with the frame time reaches 0.8 s, resets
\* the timer to 0 and creates the packet with base health 40 x difficulty
\* (scaled by the factor of its kind); otherwise the timer accumulates the
\* frame time; and the packets of a wave and its queue add up to
\* 6 + 3 x waveNumber, so the wave spawns exactly that many.
C26_SpawnCadence ==
  [][FrameStep =>
       /\ enemiesToSpawn' \in {enemiesToSpawn, enemiesToSpawn - 1}
       /\ enemiesToSpawn' >= 0
       /\ Cardinality(Spawned) = enemiesToSpawn - enemiesToSpawn'
       /\ enemiesToSpawn' < enemiesToSpawn =>
            /\ \E dt \in FrameTimes : spawnTimer + dt >= SPAWN_INTERVAL
            /\ spawnTimer' = 0
            /\ \A id \in Spawned :
                 packetObj'[id].hp * 100
                   = Hp(BASE_HP) * difficultyMultiplier * TypeHp(malwareType)
       /\ (enemiesToSpawn' = enemiesToSpawn /\ enemiesToSpawn > 0) =>
            \E dt \in FrameTimes :
              spawnTimer' = spawnTimer + dt /\ spawnTimer' < SPAWN_INTERVAL
       /\ (nextId' - 1 - SpawnedBefore(waveNumber)) + enemiesToSpawn'
            = WAVE_BASE + WAVE_STEP * waveNumber]_vars

\* C26 witness: the second wave has spawned its nine packets of armoured
\* malware at difficulty 0.8 and the first of them still crosses the grid
C26_QueueSpent ==
  /\ activeWave
  /\ waveNumber = 1
  /\ enemiesToSpawn = 0
  /\ enemies # <<>>
  /\ nextId - 1 = 2 * WAVE_BASE + WAVE_STEP
  /\ \E i \in 1..Len(enemies) : packetObj[enemies[i]].hp = Hp(2 * BASE_HP)

---------------------------------------------------------------------------
(* Properties of the route *)

\* the positions of the collection whose packet stands on the last waypoint
AtEnd == {i \in 1..Len(enemies) : PacketAtEnd(packetObj[enemies[i]])}

\* C27 (route cursor): in a frame the update of a packet reports the end of
\* the route exactly when its cursor stands on the last waypoint (the
\* packet leaves the collection and the core takes the damage of each such
\* packet) and then changes nothing of the packet, not even its slow
\* factor; any other packet stays unless it is destroyed and its cursor
\* stays or advances by 1, never past the last waypoint.
C27_CursorSteps ==
  [][FrameStep =>
       /\ currentHP' = Max(0, currentHP - CORE_DAMAGE * Cardinality(AtEnd))
       /\ \A i \in 1..Len(enemies) :
            LET id == enemies[i]
                e == packetObj[id]
            IN IF i \in AtEnd
               THEN /\ ~Includes(enemies', id)
                    /\ id \in DOMAIN packetObj' =>
                         [packetObj'[id] EXCEPT !.hp = e.hp] = e
               ELSE /\ Includes(enemies', id) \/ e.hp <= 0
                    /\ id \in DOMAIN packetObj' =>
                         /\ packetObj'[id].pathIndex \in {e.pathIndex, e.pathIndex + 1}
                         /\ packetObj'[id].pathIndex <= Len(path)]_vars

\* C27 witness: a packet has reached the core under the aura and is gone
\* from the collection, and the projectile that still chases it shows it
\* with the slow factor the aura gave it before its last update
C27_ArrivedSlowed ==
  \E i \in 1..Len(projectiles) :
    LET id == projectiles[i].target
    IN /\ ~Includes(enemies, id)
       /\ PacketAtEnd(packetObj[id])
       /\ packetObj[id].slowFactor < 100
       /\ packetObj[id].hp > 0

---------------------------------------------------------------------------
(* Properties of the towers *)

\* the packet as the loop over enemies of the frame leaves it
Moved(e) == IF PacketAtEnd(e) THEN e ELSE PacketUpdate(e)

\* the health left of h when the projectiles after position j have been
\* updated, for the packet id at (tx, ty)
RECURSIVE HitsFrom(_, _, _, _, _, _)
HitsFrom(h, id, tx, ty, i, j) ==
  IF i <= j THEN h
  ELSE LET p == projectiles[i]
           hit == /\ p.target = id
                  /\ h > 0
                  /\ Dist2(tx, ty, p.x, p.y) < Px(BUFFER_SPEED) * Px(BUFFER_SPEED)
       IN HitsFrom(IF hit THEN h - p.damage ELSE h, id, tx, ty, i - 1, j)

\* the projectiles whose update in the frame takes the health of their
\* target from above 0 to 0 or less
Killing ==
  {j \in 1..Len(projectiles) :
     LET p == projectiles[j]
         m == Moved(packetObj[p.target])
         before == HitsFrom(packetObj[p.target].hp, p.target, m.x, m.y, Len(projectiles), j)
     IN /\ before > 0
        /\ Dist2(m.x, m.y, p.x, p.y) < Px(BUFFER_SPEED) * Px(BUFFER_SPEED)
        /\ before - p.damage <= 0}

\* C29 (kill attribution): over a frame the kill counter of a tower grows
\* by the number of projectiles it fired whose update takes the health of
\* the target from above 0 to 0 or less, and by nothing else; no two such
\* projectiles have the same target, so a packet adds at most one kill
\* over all towers.
C29_KillAttribution ==
  [][FrameStep =>
       /\ Len(nodes') = Len(nodes)
       /\ \A k \in 1..Len(nodes) :
            nodes'[k].killCount - nodes[k].killCount
              = Cardinality({j \in Killing : projectiles[j].sourceNode = nodes[k].id})
       /\ \A i, j \in Killing :
            projectiles[i].target = projectiles[j].target => i = j]_vars

\* C29 witness: two towers have fired on the packets of a wave and each
\* holds kills of its own
C29_BothCredited ==
  /\ Len(nodes) = 2
  /\ nodes[1].killCount > 0
  /\ nodes[2].killCount > 0
  /\ nodes[1].killCount # nodes[2].killCount

\* the projectiles of ps that the node n has just fired: they stand where
\* the node stands, and an update would have moved or removed them
Shots(n, ps) ==
  {j \in 1..Len(ps) : ps[j].sourceNode = n.id /\ ps[j].x = n.x /\ ps[j].y = n.y}

---------------------------------------------------------------------------
(* Properties of target acquisition *)

\* the positions of the collection of the next state that the node m has
\* within its range
Near(m) == {i \in 1..Len(enemies') : InRange(m, packetObj'[enemies'[i]])}

\* the squared distance of position i of that collection to the node m
Away(m, i) == Dist2(packetObj'[enemies'[i]].x, packetObj'[enemies'[i]].y, m.x, m.y)

\* C31 (target acquisition): the packet a tower fires at in a frame is
\* strictly within its range and no packet in range is nearer to the
\* tower's pixel position; among the nearest it is the first of the
\* collection; and a tower that is ready to fire fires at nothing exactly
\* when no packet is within its range.
C31_NearestFirst ==
  [][FrameStep =>
       \A k \in 1..Len(nodes') :
         LET m == nodes'[k]
             shots == Shots(m, projectiles')
         IN /\ \A j \in shots :
                 \E i \in Near(m) :
                   /\ enemies'[i] = projectiles'[j].target
                   /\ \A o \in Near(m) :
                        Away(m, i) < Away(m, o) \/ (Away(m, i) = Away(m, o) /\ i <= o)
            /\ (Len(nodes) = Len(nodes') /\ NodeDamage(m.card) > 0 /\ nodes[k].cooldown <= 0) =>
                 (shots = {} <=> Near(m) = {})]_vars

\* C31 witness: a tower has just fired at the first of two packets that
\* are equally near to it, both in range and none nearer
C31_TieToFirst ==
  \E k \in 1..Len(nodes), j \in 1..Len(projectiles), a, b \in 1..Len(enemies) :
    LET n == nodes[k]
        d(i) == Dist2(packetObj[enemies[i]].x, packetObj[enemies[i]].y, n.x, n.y)
    IN /\ j \in Shots(n, projectiles)
       /\ projectiles[j].target = enemies[a]
       /\ a < b
       /\ InRange(n, packetObj[enemies[b]])
       /\ d(a) = d(b)

---------------------------------------------------------------------------
(* Properties of repositioning *)

\* the node n stands on the centre of its grid tile
Settled(n) == n.x = TileCenter(n.gridX) /\ n.y = TileCenter(n.gridY)

\* C32 (reposition consistency): the grid coordinates of a tower change
\* only when a reroute starts, and are then at once those of the free
\* destination tile, towards whose centre the animation runs from the
\* pixel position the tower had; a tower without a running animation
\* stands on the centre of its grid tile; and setPosition puts a tower,
\* animated or not, on the centre of the tile it is given with no
\* animation left.
C32_GridFollows ==
  [][/\ \A k \in 1..Len(nodes') :
          LET m == nodes'[k]
          IN /\ ~m.isRerouting => Settled(m)
             /\ m.isRerouting =>
                  m.targetX = TileCenter(m.gridX) /\ m.targetY = TileCenter(m.gridY)
             /\ \A t \in RerouteTiles :
                  LET s == setPosition(m, t[1], t[2])
                  IN ~s.isRerouting /\ Settled(s) /\ s.gridX = t[1] /\ s.gridY = t[2]
     /\ Len(nodes') = Len(nodes) =>
          \A k \in 1..Len(nodes) :
            LET n == nodes[k]
                m == nodes'[k]
            IN <<m.gridX, m.gridY>> # <<n.gridX, n.gridY>> =>
                 /\ reroutingNodeIndex = k
                 /\ NodeAt(m.gridX, m.gridY) = 0
                 /\ ~isTileOnPath(m.gridX, m.gridY)
                 /\ m.isRerouting
                 /\ m.rerouteTimer = 0
                 /\ m.startX = n.x /\ m.startY = n.y
                 /\ m.x = n.x /\ m.y = n.y]_vars

\* C32 witness: in a wave a tower is half way through its animation: its
\* grid coordinates are those of the destination and its pixel position is
\* between the two tile centres
C32_MidAnimation ==
  /\ activeWave
  /\ \E k \in 1..Len(nodes) :
       /\ nodes[k].isRerouting
       /\ nodes[k].rerouteTimer > 0
       /\ nodes[k].x # nodes[k].startX
       /\ nodes[k].x # nodes[k].targetX
       /\ nodes[k].targetX = TileCenter(nodes[k].gridX)

---------------------------------------------------------------------------
(* Properties of the draw *)

\* a step that runs drawHand: the start of the game and a settled advisory call
DrawStep == (~isGameStarted /\ isGameStarted') \/ AegisReturnStep

\* the hand drawHand starts from in such a step
DrawnOnto ==
  IF AegisReturnStep
  THEN [j \in 1..Len(lastGeminiResponse'[1].suggested_cards_ids) |->
          CatalogCard(lastGeminiResponse'[1].suggested_cards_ids[j])]
  ELSE hand

\* the number of copies of the card c in the pile s
Copies(s, c) == Cardinality({j \in 1..Len(s) : s[j] = c})

\* C33 (draw with reshuffle): a draw goes on until the hand holds 5 cards
\* or deck and discard are both empty, so a hand below 5 after a draw means
\* both are empty; the cards come off the end of the deck while it lasts,
\* with the discard untouched; when the deck runs out with cards still to
\* draw, the whole discard becomes the deck (the discard is then empty)
\* and the draw goes on from it; no card is lost or made.
C33_DrawRefills ==
  [][DrawStep =>
       LET n == Len(hand') - Len(DrawnOnto)
       IN /\ n >= 0
          /\ SubSeq(hand', 1, Len(DrawnOnto)) = DrawnOnto
          /\ Len(hand') < HAND_SIZE => (deck' = <<>> /\ discard' = <<>>)
          /\ n > 0 => Len(hand') <= HAND_SIZE
          /\ n <= Len(deck) =>
               /\ discard' = discard
               /\ deck' = SubSeq(deck, 1, Len(deck) - n)
               /\ \A j \in 1..n : hand'[Len(DrawnOnto) + j] = deck[Len(deck) + 1 - j]
          /\ n > Len(deck) =>
               /\ discard # <<>>
               /\ discard' = <<>>
               /\ Len(deck') = Len(deck) + Len(discard) - n
               /\ \A j \in 1..Len(deck) : hand'[Len(DrawnOnto) + j] = deck[Len(deck) + 1 - j]
          /\ \A c \in CardIds :
               Copies(hand', c) + Copies(deck', c) + Copies(discard', c)
                 = Copies(DrawnOnto, c) + Copies(deck, c) + Copies(discard, c)]_vars

\* C33 witness: the draw after the second wave has found the deck empty,
\* turned the discard into the deck and filled the hand from it
C33_Reshuffled ==
  /\ waveNumber = 2
  /\ lastLog = "[AEGIS] KERNEL LOG"
  /\ Len(hand) = HAND_SIZE
  /\ discard = <<>>
  /\ deck # <<>>

---------------------------------------------------------------------------
(* Properties of the ways a packet leaves *)

\* the positions of the collection whose packet has health 0 or less
Killed == {i \in 1..Len(enemies) : packetObj[enemies[i]].hp <= 0}

\* C34 (no damage from the dead), as the specification states it: in a
\* frame the core takes the damage of the packets that stand on the last
\* waypoint with health above 0 and of no other, and every packet with
\* health 0 or less leaves as defeated, counted and refunded.
C34_DeadNeverBreaches ==
  [][FrameStep =>
       /\ currentHP' = Max(0, currentHP - CORE_DAMAGE * Cardinality(AtEnd \ Killed))
       /\ defeatedCount' = defeatedCount + Cardinality(Killed)
       /\ currentEnergy' = Min(MAX_ENERGY, currentEnergy + KILL_REFUND * Cardinality(Killed))
       /\ \A i \in Killed : ~Includes(enemies', enemies[i])]_vars


---------------------------------------------------------------------------
(* Properties of withRetry *)

\* a step in which withRetry invokes fn
FnInvoked == fnResults' # fnResults /\ fnResults' # <<>>

\* C35 (retry discipline), as the specification states it: withRetry
\* invokes fn at most three times; it invokes fn again only after a
\* rate-limit error with attempts left, so never after a result, a not-found
\* error, any other error or a rate-limit error on the third attempt; the
\* call settles on the reply of the first successful invocation, and on the
\* fallback when the error was passed on.
C35_RetryDiscipline ==
  [][/\ Len(fnResults') <= MAX_RETRIES
     /\ FnInvoked =>
          /\ \E o \in FnOutcomes : fnResults' = Append(fnResults, o)
          /\ fnResults # <<>> =>
               /\ fnResults[Len(fnResults)] = "rate_limit"
               /\ Len(fnResults) < MAX_RETRIES
     /\ (AegisReturnStep /\ fnResults # <<>>) =>
          /\ \A j \in 1..(Len(fnResults) - 1) : fnResults[j] = "rate_limit"
          /\ IF fnResults[Len(fnResults)] = "ok"
             THEN \E r \in RawReplies : lastGeminiResponse' = <<Sanitize(r)>>
             ELSE lastGeminiResponse' = <<fallback>>]_vars

\* fn has been invoked three times and has met the rate limit each time
C35_ThirdAttemptLimited ==
  /\ aegisCall = "pending"
  /\ Len(fnResults) = MAX_RETRIES
  /\ fnResults[MAX_RETRIES] = "rate_limit"

---------------------------------------------------------------------------
(* Properties of the selection *)

---------------------------------------------------------------------------
(* Properties of the targets *)

\* C37 (no shot at the dead), as the specification states it: every
\* projectile a tower fires in a frame is fired at a packet whose health is
\* above 0 at that moment.
C37_LiveTargetsOnly ==
  [][FrameStep =>
       \A k \in 1..Len(nodes') :
         \A j \in Shots(nodes'[k], projectiles') :
           packetObj'[projectiles'[j].target].hp > 0]_vars

\* C38 (no hit on the removed), as the specification states it: in a frame
\* a projectile takes health only from a packet that the loop over enemies
\* has left in the collection, and only such a packet is credited as a
\* kill; a packet that has gone from the collection keeps its health as
\* long as a projectile is under way to it.
C38_RemovedUntouched ==
  [][FrameStep =>
       /\ \A j \in Killing : Includes(enemies', projectiles[j].target)
       /\ \A id \in DOMAIN packetObj \cap DOMAIN packetObj' :
            ~Includes(enemies', id) => packetObj'[id].hp = packetObj[id].hp]_vars

---------------------------------------------------------------------------
(* Properties of the course of a wave *)

\* C39 (wave resolution), as the specification states it: while frames keep
\* coming, a wave that has started is eventually resolved by endWave, with
\* nothing left to spawn and every packet it spawned removed from the
\* collection.
C39_WaveResolves ==
  activeWave ~> (~activeWave /\ isWaveSummaryOpen /\ enemies = <<>> /\ enemiesToSpawn = 0)

\* the second wave is resolved with towers built, packets defeated and the
\* core breached
C39_DefendedWaveResolved ==
  /\ ~activeWave
  /\ isWaveSummaryOpen
  /\ waveNumber = 1
  /\ nodes # <<>>
  /\ defeatedCount > 0
  /\ currentHP < INITIAL_HP - WAVE_BASE * CORE_DAMAGE

---------------------------------------------------------------------------
(* Properties of the reroute animation *)

\* C40 (the animation completes), as the specification states it: while
\* frames keep coming, a tower whose reroute has started eventually has its
\* animation flag cleared and stands on the centre of its destination
\* tile, in a wave and between waves.
C40_RerouteCompletes ==
  (\E k \in 1..Len(nodes) : nodes[k].isRerouting)
    ~> (\A k \in 1..Len(nodes) : ~nodes[k].isRerouting /\ Settled(nodes[k]))
=============================================================================
